---- MODULE Spec2Model ----
(***************************************************************************)
(* ScreHelper: the classification-batch orchestration of ScreenerPage      *)
(* (src/unnamed/part_000).  The state is the React state of the page plus  *)
(* one record per call of runAnalysisForArticles that has been started:    *)
(* its local variables, the render-time values its closure captured and    *)
(* the wave of backend calls it is awaiting.                               *)
(*                                                                         *)
(* Text values.  title/abstract/doi/source/classification cells are atomic *)
(* strings ("" is the empty string).  reason and criterion texts are       *)
(* sequences of tokens (a token is a character or a fixed phrase), so that *)
(* trim and template concatenation are computed.                           *)
(***************************************************************************)
EXTENDS Integers, Sequences, FiniteSets, TLC

VARIABLES criteria, articles, classifiedArticles, isLoading, progress,
          fileName, isCancelledRef, originalArticleData, aiProvider, runs,
          started, lineage, imported, notice, filterClassification,
          filterCriterion, clicked, response, listing

vars == <<criteria, articles, classifiedArticles, isLoading, progress,
          fileName, isCancelledRef, originalArticleData, aiProvider, runs,
          started, lineage, imported, notice, filterClassification,
          filterCriterion, clicked, response, listing>>

----------------------------------------------------------------------------
(* Bounds *)

\* longest raw response text of a backend, in tokens
MaxContent == 4

\* most model-list loads the page starts
MaxLoads == 2

\* number of calls of runAnalysisForArticles that get past the model check
MaxRuns == 2
\* number of rows of the longest importable file
MaxRows == 3

----------------------------------------------------------------------------
(* Program constants *)

CONCURRENT_REQUESTS == 2

sampleArticles ==
  << [title |-> "t1", abstract |-> "a1"],
     [title |-> "t2", abstract |-> "a2"],
     [title |-> "t3", abstract |-> "a3"],
     [title |-> "t4", abstract |-> "a4"] >>

----------------------------------------------------------------------------
(* Inputs: criteria forms, spreadsheet files, backend answers *)

\* values the criteria form can submit (zod: both lists non-empty)
CriteriaForms ==
  { [inclusion |-> << <<"c">> >>, exclusion |-> << <<"x">> >>] }

\* rows of a spreadsheet of fresh records; consecutive rows share a title or
\* an abstract but never both
FreshRows ==
  << [title |-> "t1", abstract |-> "a1"],
     [title |-> "t1", abstract |-> "a2"],
     [title |-> "t2", abstract |-> "a2"],
     [title |-> "t3", abstract |-> "a2"],
     [title |-> "t3", abstract |-> "a3"] >>

\* rows of a spreadsheet exported earlier (classification/reason/criterion)
ResultRows ==
  << [title |-> "t1", abstract |-> "a1", classification |-> "Include",
      reason |-> <<"r">>, criterion |-> <<"1", ".", " ", "c">>],
     [title |-> "t2", abstract |-> "a2", classification |-> "Exclude",
      reason |-> <<"r">>, criterion |-> <<" ">>],
     [title |-> "t3", abstract |-> "a3", classification |-> "Include",
      reason |-> <<"r">>, criterion |-> <<"c", " ">>],
     [title |-> "t4", abstract |-> "a4", classification |-> "",
      reason |-> <<>>, criterion |-> <<>>],
     [title |-> "t1", abstract |-> "a2", classification |-> "true",
      reason |-> <<"r">>, criterion |-> <<"C">>] >>

Files ==
  { [name |-> "fresh.xlsx", rows |-> SubSeq(FreshRows, 1, n)] : n \in 0..MaxRows }
  \cup
  { [name |-> "results.xlsx", rows |-> SubSeq(ResultRows, 1, n)] : n \in 1..MaxRows }

\* verdicts a backend call returns (ClassifyArticleOutput); the orchestration
\* never branches on the content of a verdict
Verdicts ==
  { [include |-> TRUE, reason |-> <<"r">>, criterion |-> <<"1", ".", " ", "c">>] }

----------------------------------------------------------------------------
(* Helpers *)

Null == <<>>

\* the value 'all' of the criterion filter
AllCriteria == <<"a", "l", "l">>
Some(x) == <<x>>

\* row.hasOwnProperty(col)
hasOwnProperty(row, col) == col \in DOMAIN row

\* row[col] || ''   for an atomic-string cell
CellOr(row, col, dflt) ==
  IF hasOwnProperty(row, col) /\ row[col] # "" THEN row[col] ELSE dflt

\* row[col] || dflt   for a text (token sequence) cell
TextOr(row, col, dflt) ==
  IF hasOwnProperty(row, col) /\ row[col] # <<>> THEN row[col] ELSE dflt

\* variant: records compared by title only
SameTitle(x, y) == x.title = y.title

\* x.title === y.title && x.abstract === y.abstract
SameIdentity(x, y) == x.title = y.title /\ x.abstract = y.abstract

\* variant: the last matching row of the pool
FindLastOriginal(pool, article) ==
  LET hits == { i \in 1..Len(pool) :
                  /\ hasOwnProperty(pool[i], "title")
                  /\ hasOwnProperty(pool[i], "abstract")
                  /\ SameIdentity(pool[i], article) }
  IN IF hits = {} THEN Null
     ELSE Some(pool[CHOOSE i \in hits : \A j \in hits : i >= j])

\* Array.prototype.find on the original-row pool
FindOriginal(pool, article) ==
  LET hits == { i \in 1..Len(pool) :
                  /\ hasOwnProperty(pool[i], "title")
                  /\ hasOwnProperty(pool[i], "abstract")
                  /\ SameIdentity(pool[i], article) }
  IN IF hits = {} THEN Null
     ELSE Some(pool[CHOOSE i \in hits : \A j \in hits : i <= j])

\* the elements of s whose mask entry is TRUE, in order
RECURSIVE Pick(_, _)
Pick(s, mask) ==
  IF s = <<>> THEN <<>>
  ELSE IF Head(mask) THEN <<Head(s)>> \o Pick(Tail(s), Tail(mask))
       ELSE Pick(Tail(s), Tail(mask))

\* Array.prototype.filter
FilterSeq(s, keep(_)) == Pick(s, [i \in 1..Len(s) |-> keep(s[i])])

\* Array.prototype.map
MapSeq(s, f(_)) == [i \in 1..Len(s) |-> f(s[i])]

----------------------------------------------------------------------------
(* Import *)

ResultMarkers ==
  { "classification", "reason", "criterion",
    "ai_include", "ai_reason", "ai_criterion",
    "manual_include", "manual_reason", "manual_criterion",
    "final_include", "final_reason", "final_criterion" }

\* the Article built from a row by both import paths
RowArticle(row) ==
  [ title    |-> CellOr(row, "title", ""),
    abstract |-> CellOr(row, "abstract", ""),
    doi      |-> CellOr(row, "doi", ""),
    source   |-> CellOr(row, "source",
                   CellOr(row, "journal",
                     CellOr(row, "publication",
                       CellOr(row, "venue", "")))) ]

\* variant: only the title is required
HasTitle(a) == a.title # ""

\* .filter(a => a.title && a.abstract)
HasTitleAndAbstract(a) == a.title # "" /\ a.abstract # ""

LoadedPlaceholder == <<"Loaded from previous results">>

\* "|"-separated text -> list of texts (String.prototype.split)
RECURSIVE SplitBar(_, _)
SplitBar(text, cur) ==
  IF text = <<>> THEN <<cur>>
  ELSE IF Head(text) = "|" THEN <<cur>> \o SplitBar(Tail(text), <<>>)
       ELSE SplitBar(Tail(text), Append(cur, Head(text)))

IsSpace(ch) == ch = " "

\* String.prototype.trim
RECURSIVE TrimLeft(_)
TrimLeft(text) ==
  IF text # <<>> /\ IsSpace(Head(text)) THEN TrimLeft(Tail(text)) ELSE text

RECURSIVE TrimRight(_)
TrimRight(text) ==
  IF text # <<>> /\ IsSpace(text[Len(text)])
  THEN TrimRight(SubSeq(text, 1, Len(text) - 1)) ELSE text

trim(text) == TrimRight(TrimLeft(text))

NonBlank(text) == trim(text) # <<>>

\* variant: a schema is taken as soon as its classification column exists
SchemaPresent(row, col) == hasOwnProperty(row, col)

\* the verdict of one row of a previous-results file
\* (classification > final_* > manual_* > ai_*)
\* row.hasOwnProperty(col) && row[col] !== null && row[col] !== ''
SchemaHit(row, col) == hasOwnProperty(row, col) /\ row[col] # ""

RowClassification(row) ==
  IF SchemaHit(row, "classification") THEN
    [ include   |-> row.classification \in {"Include", "true"},
      reason    |-> TextOr(row, "reason", LoadedPlaceholder),
      criterion |-> TextOr(row, "criterion", LoadedPlaceholder) ]
  ELSE IF SchemaHit(row, "final_include") THEN
    [ include   |-> row.final_include \in {"true", "Include"},
      reason    |-> TextOr(row, "final_reason", LoadedPlaceholder),
      criterion |-> TextOr(row, "final_criterion", LoadedPlaceholder) ]
  ELSE IF SchemaHit(row, "manual_include") THEN
    [ include   |-> row.manual_include \in {"true", "Include"},
      reason    |-> TextOr(row, "manual_reason", LoadedPlaceholder),
      criterion |-> TextOr(row, "manual_criterion", LoadedPlaceholder) ]
  ELSE IF SchemaHit(row, "ai_include") THEN
    [ include   |-> row.ai_include \in {"true", "Include"},
      reason    |-> TextOr(row, "ai_reason", LoadedPlaceholder),
      criterion |-> TextOr(row, "ai_criterion", LoadedPlaceholder) ]
  ELSE
    [ include |-> FALSE, reason |-> LoadedPlaceholder,
      criterion |-> LoadedPlaceholder ]

\* a ClassifiedArticle; `by` records the fresh Run whose lineage appended it
\* (0: imported)
Classified(article, classification, original, by) ==
  [ article |-> article, classification |-> classification,
    originalData |-> original, by |-> by ]

----------------------------------------------------------------------------
(* The session: the part of the page state that the criteria form and the  *)
(* import handlers write.  Each handler is a function from the session     *)
(* before to the session after; the actions below apply them.              *)

Session(c, a, ca, oad, fn) ==
  [ criteria |-> c, articles |-> a, classifiedArticles |-> ca,
    originalArticleData |-> oad, fileName |-> fn ]

\* useState initial values
Constructed == Session(Null, <<>>, <<>>, <<>>, "")

onCriteriaSubmit(s, data) ==
  [s EXCEPT !.criteria = Some(data), !.classifiedArticles = <<>>]

handleResetCriteria(s) ==
  [s EXCEPT !.criteria = Null, !.classifiedArticles = <<>>]

handleLoadSampleData(s) ==
  [s EXCEPT !.articles = sampleArticles, !.fileName = "Sample Data"]

\* a notification shown by toast({ variant, title, description })
Toast(variant, title, description) ==
  [ variant |-> variant, title |-> title, description |-> description ]

\* Array.prototype.join(', ')
RECURSIVE JoinComma(_)
JoinComma(names) ==
  IF names = <<>> THEN <<>>
  ELSE IF Len(names) = 1 THEN names
  ELSE <<Head(names), ", ">> \o JoinComma(Tail(names))

requiredColumns == <<"title", "abstract">>

\* requiredColumns.filter(col => !lowercasedJson[0].hasOwnProperty(col))
missingColumns(rows) ==
  LET absent(col) == ~hasOwnProperty(rows[1], col)
  IN FilterSeq(requiredColumns, absent)

\* the guard of handleLoadNewArticles (line 695)
LacksTitleOrAbstract(rows) ==
  Len(rows) > 0 /\ (~hasOwnProperty(rows[1], "title")
                     \/ ~hasOwnProperty(rows[1], "abstract"))

parsedArticles(rows) == FilterSeq(MapSeq(rows, RowArticle), HasTitleAndAbstract)

handleLoadNewArticles(s, rows) ==
  IF LacksTitleOrAbstract(rows)
  THEN [s EXCEPT !.articles = <<>>, !.fileName = ""]
  ELSE [s EXCEPT
          !.originalArticleData = rows,
          !.articles = parsedArticles(rows),
          !.classifiedArticles = <<>>]

\* the notification handleLoadNewArticles shows
LoadNewArticlesToast(rows) ==
  IF LacksTitleOrAbstract(rows)
  THEN Toast("destructive", "Error",
             <<"File must contain \"", "title", "\" and \"", "abstract",
               "\" columns.">>)
  ELSE Toast("default", "File parsed successfully.",
             <<ToString(Len(parsedArticles(rows))), " articles loaded.">>)

\* a spreadsheet cell that holds a number, not a string
NumberCell == <<"#7">>

\* inclusionCriteria.split is not a function: the TypeError raised inside the
\* try block when a criteria cell of the first row holds a number
SplitThrows(rows) ==
  /\ hasOwnProperty(rows[1], "inclusion_criteria")
  /\ hasOwnProperty(rows[1], "exclusion_criteria")
  /\ rows[1].inclusion_criteria # <<>>
  /\ rows[1].exclusion_criteria # <<>>
  /\ (rows[1].inclusion_criteria = NumberCell
        \/ rows[1].exclusion_criteria = NumberCell)

\* inclusion_criteria / exclusion_criteria of the first row, when both are
\* present and non-empty
LoadedCriteria(rows) ==
  IF /\ hasOwnProperty(rows[1], "inclusion_criteria")
     /\ hasOwnProperty(rows[1], "exclusion_criteria")
     /\ rows[1].inclusion_criteria # <<>>
     /\ rows[1].exclusion_criteria # <<>>
  THEN Some([ inclusion |-> FilterSeq(SplitBar(rows[1].inclusion_criteria, <<>>), NonBlank),
              exclusion |-> FilterSeq(SplitBar(rows[1].exclusion_criteria, <<>>), NonBlank) ])
  ELSE Null

RowClassified(row) ==
  Classified(RowArticle(row), RowClassification(row), Some(row), 0)

EntryHasTitleAndAbstract(e) == HasTitleAndAbstract(e.article)

BasicArticle(e) == [title |-> e.article.title, abstract |-> e.article.abstract]

articlesWithClassification(rows) ==
  FilterSeq(MapSeq(rows, RowClassified), EntryHasTitleAndAbstract)

handleLoadPreviousResults(s, rows) ==
  IF Len(rows) = 0 THEN s
  ELSE IF missingColumns(rows) # <<>> THEN s
  ELSE IF SplitThrows(rows)
  THEN [s EXCEPT !.articles = <<>>, !.classifiedArticles = <<>>,
                 !.fileName = ""]
  ELSE [s EXCEPT
          !.articles = MapSeq(articlesWithClassification(rows), BasicArticle),
          !.classifiedArticles = articlesWithClassification(rows),
          !.criteria = IF LoadedCriteria(rows) # Null
                       THEN LoadedCriteria(rows) ELSE @]

\* the notification handleLoadPreviousResults shows
LoadPreviousResultsToast(rows) ==
  IF Len(rows) = 0
  THEN Toast("destructive", "Error", <<"Empty file.">>)
  ELSE IF missingColumns(rows) # <<>>
  THEN Toast("destructive", "Error",
             <<"Missing required columns: ">> \o JoinComma(missingColumns(rows)))
  ELSE IF SplitThrows(rows)
  THEN Toast("destructive", "Error loading previous results",
             <<"Failed to parse the results file. Please check the file format.">>)
  ELSE Toast("default", "Previous results loaded successfully!",
             <<ToString(Len(articlesWithClassification(rows))),
               " classified articles loaded. ",
               IF LoadedCriteria(rows) # Null THEN "Criteria also restored."
               ELSE "Set criteria if needed.">>)

\* variant: a file that has the title and abstract columns is taken for a
\* file of fresh records whatever else it holds
hasClassificationDataOnly(rows) ==
  /\ Len(rows) > 0 /\ \E c \in ResultMarkers : hasOwnProperty(rows[1], c)
  /\ ~(hasOwnProperty(rows[1], "title") /\ hasOwnProperty(rows[1], "abstract"))

\* handleFileChange: first row carries a result marker column
hasClassificationData(rows) ==
  Len(rows) > 0 /\ \E c \in ResultMarkers : hasOwnProperty(rows[1], c)

handleFileChange(s, file) ==
  LET named == [s EXCEPT !.fileName = file.name]
  IN IF hasClassificationData(file.rows)
     THEN handleLoadPreviousResults(named, file.rows)
     ELSE handleLoadNewArticles(named, file.rows)

\* the handler handleFileChange hands the rows to
FileChangeRoute(file) ==
  IF hasClassificationData(file.rows) THEN "previous" ELSE "fresh"

\* the notification shown while handling the file
FileChangeToast(file) ==
  IF hasClassificationData(file.rows)
  THEN LoadPreviousResultsToast(file.rows)
  ELSE LoadNewArticlesToast(file.rows)

\* the "Load Articles" card accepts clicks only when criteria are set
CardEnabled(s) == s.criteria # Null

\* sessions reached from the constructed page by submitting criteria and
\* then loading at most two sources
Prepared0 == { onCriteriaSubmit(Constructed, data) : data \in CriteriaForms }

LoadsFrom(S) ==
  { handleLoadSampleData(s) : s \in { x \in S : CardEnabled(x) } }
  \cup { handleFileChange(sf[1], sf[2]) :
           sf \in { x \in S : CardEnabled(x) } \X Files }

Prepared ==
  LoadsFrom(Prepared0)
  \cup { handleLoadSampleData(s) : s \in LoadsFrom(Prepared0) }

----------------------------------------------------------------------------
(* State *)

\* progress is kept as the fraction articlesProcessed / totalArticles
Fraction(n, d) == [n |-> n, d |-> d]
Zero == Fraction(0, 1)

\* bookkeeping of the resumable lineage (the last accepted Run and the
\* Continue calls after it): run, its number; fresh, no earlier call was
\* still pending when it started; clean, no load, criteria change or rejected
\* Run since; resumed, a Continue was accepted; failed / dropped, the records
\* whose classification failed / whose result was discarded under cancellation
NoLineage ==
  [ run |-> 0, fresh |-> FALSE, clean |-> FALSE, resumed |-> FALSE,
    failed |-> {}, dropped |-> {} ]

\* the page with criteria set and records loaded, before any analysis
Init ==
  /\ \E s \in Prepared :
       /\ criteria = s.criteria
       /\ articles = s.articles
       /\ classifiedArticles = s.classifiedArticles
       /\ originalArticleData = s.originalArticleData
       /\ fileName = s.fileName
  /\ isLoading = FALSE
  /\ progress = Zero
  /\ isCancelledRef = FALSE
  /\ aiProvider = "gemini"
  /\ runs = <<>>
  /\ started = 0
  /\ lineage = NoLineage
  /\ imported = Null
  /\ notice = Null
  /\ filterClassification = "all"
  /\ filterCriterion = AllCriteria
  /\ clicked = Null
  /\ response = Null
  /\ listing = <<>>

\* a load, a criteria change or a rejected Run ends the resumable lineage
Foreign == [lineage EXCEPT !.clean = FALSE]

showDataCard == criteria # Null

----------------------------------------------------------------------------
(* Batch orchestration *)

showAnalysisButton == showDataCard /\ Len(articles) > 0 /\ ~isLoading

\* tasks of all started runs whose backend call has not returned
Flying == { <<r, i>> \in (1..Len(runs)) \X (1..CONCURRENT_REQUESTS) :
              i <= Len(runs[r].batch) /\ runs[r].batch[i].state = "flying" }

InFlight == Cardinality(Flying)

\* variant: the wave is made of copies of the first queued record
SpliceTakenFirst(queue) ==
  [ i \in 1..(IF Len(queue) < CONCURRENT_REQUESTS
              THEN Len(queue) ELSE CONCURRENT_REQUESTS) |-> queue[1] ]

\* articlesToProcess.splice(0, CONCURRENT_REQUESTS): the removed elements
SpliceTaken(queue) ==
  SubSeq(queue, 1, IF Len(queue) < CONCURRENT_REQUESTS
                   THEN Len(queue) ELSE CONCURRENT_REQUESTS)

\* variant: the splice removes one element more than it returns
SpliceLeftShort(queue) ==
  SubSeq(queue, Len(SpliceTaken(queue)) + 2, Len(queue))

\* articlesToProcess.splice(0, CONCURRENT_REQUESTS): what stays in the array
SpliceLeft(queue) ==
  SubSeq(queue, Len(SpliceTaken(queue)) + 1, Len(queue))

\* the adapter call of a task that is not awaiting one
NoCall == [phase |-> "none", timer |-> FALSE]

\* the adapter call up to its first await: classifyArticle (gemini) awaits
\* the flow; classifyWithOllama / classifyWithDeepSeek arm the abort timer
\* and await fetch
CallStart(provider) ==
  IF provider = "gemini" THEN [phase |-> "flow", timer |-> FALSE]
  ELSE [phase |-> "fetch", timer |-> TRUE]

\* batch.map(async article => { if (isCancelledRef.current) return; ... })
\* up to the first await of every callback
Launch(batch, cancelled, provider) ==
  [i \in 1..Len(batch) |->
     [article |-> batch[i],
      state |-> IF cancelled THEN "settled" ELSE "flying",
      call |-> IF cancelled THEN NoCall ELSE CallStart(provider)]]

\* articles.filter(a => !classifiedArticles.some(c => same title and abstract))
Unclassified(list, completed) ==
  LET pending(a) == ~\E j \in 1..Len(completed) : SameIdentity(completed[j].article, a)
  IN FilterSeq(list, pending)

\* the calls of runAnalysisForArticles that have not returned; the record of
\* a call that returned is kept until the next call starts
IsUnsettled(run) == ~run.settled
Unsettled(rs) == FilterSeq(rs, IsUnsettled)

\* variant: starting a run leaves the cancellation flag as it is
CancelledKept(cancelled) == cancelled

\* isCancelledRef.current = false (line 926)
CancelledAtStart(cancelled) == FALSE

\* runAnalysisForArticles from line 925 to the first await inside
\* processBatch; `completed` is the value of classifiedArticles the state
\* update queued by the caller leaves
StartRun(kind, articlesToAnalyze, completed) ==
  LET id == started + 1
      cancelled == CancelledAtStart(isCancelledRef)
      run == [ id |-> id,
               kind |-> kind,
               articlesToAnalyze |-> articlesToAnalyze,
               totalArticles |-> Len(articlesToAnalyze),
               articlesProcessed |-> 0,
               articlesToProcess |-> SpliceLeft(articlesToAnalyze),
               batch |-> Launch(SpliceTaken(articlesToAnalyze), cancelled, aiProvider),
               criteria |-> criteria,
               aiProvider |-> aiProvider,
               originalArticleData |-> originalArticleData,
               isLoading |-> isLoading,
               settled |-> FALSE,
               lineage |-> IF kind = "run" THEN id ELSE lineage.run,
               dispatched |-> Len(SpliceTaken(articlesToAnalyze)),
               appended |-> 0,
               failed |-> 0,
               interrupted |-> FALSE ]
  IN /\ started < MaxRuns
     /\ started' = id
     /\ isCancelledRef' = cancelled
     /\ isLoading' = TRUE
     /\ progress' = Zero
     /\ classifiedArticles' = completed
     /\ runs' = Append(Unsettled(runs), run)
     /\ lineage' = IF kind = "run"
                   THEN [ run |-> id, fresh |-> Unsettled(runs) = <<>>,
                          clean |-> TRUE, resumed |-> FALSE,
                          failed |-> {}, dropped |-> {} ]
                   ELSE [lineage EXCEPT !.resumed = TRUE]
     /\ imported' = Null
     /\ notice' = Null
     /\ UNCHANGED <<filterClassification, filterCriterion>>
     /\ clicked' = Null
     /\ response' = Null
     /\ UNCHANGED listing
     /\ UNCHANGED <<criteria, articles, fileName, originalArticleData,
                    aiProvider>>

\* runAnalysisForArticles lines 889-905: the provider is ollama or deepseek
\* and no model of that provider is selected (modelSelected: the selection
\* at the time of the click)
ModelMissing(modelSelected) == aiProvider # "gemini" /\ ~modelSelected

\* the notification of a request that is turned down for want of a model
SelectModelToast ==
  Toast("destructive", "Error",
        IF aiProvider = "ollama" THEN <<"Please select an Ollama model.">>
        ELSE <<"Please select a DeepSeek model.">>)

\* handleRunAnalysis
handleRunAnalysis(modelSelected) ==
  /\ showAnalysisButton
  /\ criteria # Null /\ Len(articles) # 0
  /\ IF ModelMissing(modelSelected)
     THEN /\ classifiedArticles' = <<>>
          /\ lineage' = Foreign
          /\ imported' = Null
          /\ notice' = Some(SelectModelToast)
          /\ UNCHANGED <<filterClassification, filterCriterion>>
          /\ clicked' = Null
          /\ response' = Null
          /\ UNCHANGED listing
          /\ UNCHANGED <<criteria, articles, isLoading, progress, fileName,
                         isCancelledRef, originalArticleData, aiProvider,
                         runs, started>>
     ELSE StartRun("run", articles, <<>>)

\* the Continue Analysis button is rendered
showContinueButton ==
  /\ showAnalysisButton
  /\ Len(classifiedArticles) > 0
  /\ Len(classifiedArticles) < Len(articles)

\* variant: Continue goes on with an empty pending list
NeverNothingToContinue(unclassifiedArticles) == FALSE

\* if (unclassifiedArticles.length === 0)
NothingToContinue(unclassifiedArticles) == Len(unclassifiedArticles) = 0

AlreadyCompleteToast ==
  Toast("default", "Analysis already complete",
        <<"All articles have been classified. You can export the results or modify classifications manually.">>)

handleContinueAnalysis(modelSelected) ==
  /\ showContinueButton
  /\ criteria # Null /\ Len(articles) # 0
  /\ LET unclassifiedArticles == Unclassified(articles, classifiedArticles)
     IN IF NothingToContinue(unclassifiedArticles)
        THEN /\ notice' = Some(AlreadyCompleteToast)
             /\ imported' = Null
             /\ UNCHANGED <<filterClassification, filterCriterion>>
             /\ clicked' = Null
             /\ response' = Null
             /\ UNCHANGED listing
             /\ UNCHANGED <<criteria, articles, classifiedArticles, isLoading,
                            progress, fileName, isCancelledRef,
                            originalArticleData, aiProvider, runs, started,
                            lineage>>
        ELSE IF ModelMissing(modelSelected)
        THEN /\ notice' = Some(SelectModelToast)
             /\ imported' = Null
             /\ UNCHANGED <<filterClassification, filterCriterion>>
             /\ clicked' = Null
             /\ response' = Null
             /\ UNCHANGED listing
             /\ UNCHANGED <<criteria, articles, classifiedArticles, isLoading,
                            progress, fileName, isCancelledRef,
                            originalArticleData, aiProvider, runs, started,
                            lineage>>
        ELSE StartRun("continue", unclassifiedArticles, classifiedArticles)

handleInterrupt ==
  /\ isLoading
  /\ isCancelledRef' = TRUE
  /\ isLoading' = FALSE
  /\ runs' = [r \in 1..Len(runs) |->
                IF runs[r].settled THEN runs[r]
                ELSE [runs[r] EXCEPT !.interrupted = TRUE]]
  /\ imported' = Null
  /\ notice' = Null
  /\ UNCHANGED <<filterClassification, filterCriterion>>
  /\ clicked' = Null
  /\ response' = Null
  /\ UNCHANGED listing
  /\ UNCHANGED <<criteria, articles, classifiedArticles, progress, fileName,
                 originalArticleData, aiProvider, started, lineage>>

\* variant: the new result is put in front of the earlier ones
PrependResult(prev, classifiedArticle) == <<classifiedArticle>> \o prev

\* setClassifiedArticles(prev => [...prev, classifiedArticle])
AppendResult(prev, classifiedArticle) == Append(prev, classifiedArticle)

\* lines 968-978: the result is committed only when not cancelled
Commits(ok, cancelled) == ok /\ ~cancelled

\* variant: the finally block counts the task whether or not cancelled
CountsAlways(ok, cancelled) == TRUE

\* lines 989-994: the finally block counts the task only when not cancelled
Counts(ok, cancelled) == ~cancelled

\* line 997: another wave is launched
Refills(cancelled, queue) == ~cancelled /\ Len(queue) > 0

\* variant: a classification error abandons the records still queued
QueueDroppedOnError(queue) == <<>>

\* what a classification error does to the records still queued (nothing)
QueueAfterError(queue) == queue

\* The continuation of one task of run r after its backend call returned
\* (ok: a verdict, ~ok: an error thrown by the adapter), followed, when it
\* is the last task of its wave, by the continuation of Promise.all: the
\* next wave (line 997) or the end of runAnalysisForArticles (1004-1021).
TaskReturns(r, i, ok, verdict) ==
  LET run == runs[r]
      article == run.batch[i].article
      cancelled == isCancelledRef
      classifiedArticle ==
        Classified(article, verdict,
                   FindOriginal(run.originalArticleData, article), run.lineage)
      processed == IF Counts(ok, cancelled)
                   THEN run.articlesProcessed + 1 ELSE run.articlesProcessed
      batch == [run.batch EXCEPT ![i].state = "settled", ![i].call = NoCall]
      queue == IF ok THEN run.articlesToProcess
               ELSE QueueAfterError(run.articlesToProcess)
      waveSettled == \A j \in 1..Len(batch) : batch[j].state # "flying"
      refill == waveSettled /\ Refills(cancelled, queue)
      ends == waveSettled /\ ~refill
      counted == [run EXCEPT
                    !.articlesProcessed = processed,
                    !.appended = IF Commits(ok, cancelled) THEN @ + 1 ELSE @,
                    !.failed = IF ~ok /\ ~cancelled THEN @ + 1 ELSE @]
  IN /\ <<r, i>> \in Flying
     /\ classifiedArticles' =
          IF Commits(ok, cancelled)
          THEN AppendResult(classifiedArticles, classifiedArticle)
          ELSE classifiedArticles
     /\ progress' = IF Counts(ok, cancelled)
                    THEN Fraction(processed, run.totalArticles) ELSE progress
     /\ runs' = [runs EXCEPT ![r] =
          IF refill
          THEN [counted EXCEPT
                  !.batch = Launch(SpliceTaken(queue), cancelled, run.aiProvider),
                  !.articlesToProcess = SpliceLeft(queue),
                  !.dispatched = @ + Len(SpliceTaken(queue))]
          ELSE [counted EXCEPT
                  !.batch = batch,
                  !.articlesToProcess = queue,
                  !.settled = ends]]
     /\ isLoading' = IF ends /\ ~(cancelled /\ ~run.isLoading)
                     THEN FALSE ELSE isLoading
     /\ lineage' =
          IF run.lineage # lineage.run THEN lineage
          ELSE IF cancelled THEN [lineage EXCEPT !.dropped = @ \cup {article}]
          ELSE IF ~ok THEN [lineage EXCEPT !.failed = @ \cup {article}]
          ELSE lineage
     /\ imported' = Null
     /\ notice' = Null
     /\ UNCHANGED <<filterClassification, filterCriterion>>
     /\ clicked' = Null
     /\ UNCHANGED listing
     /\ UNCHANGED <<criteria, articles, fileName, isCancelledRef,
                    originalArticleData, aiProvider, started>>

TaskSucceeds ==
  \E <<r, i>> \in Flying : \E v \in Verdicts :
    TaskReturns(r, i, TRUE, v) /\ response' = Null

NoVerdict == [include |-> FALSE, reason |-> <<>>, criterion |-> <<>>]

TaskFails ==
  \E <<r, i>> \in Flying :
    TaskReturns(r, i, FALSE, NoVerdict) /\ response' = Null

----------------------------------------------------------------------------
(* The page *)

Next ==
  \/ \E modelSelected \in BOOLEAN : handleRunAnalysis(modelSelected)
  \/ \E modelSelected \in BOOLEAN : handleContinueAnalysis(modelSelected)
  \/ handleInterrupt
  \/ TaskSucceeds
  \/ TaskFails

Spec == Init /\ [][Next]_vars

----------------------------------------------------------------------------
(* Manual reclassification (results table) *)

showResults == Len(classifiedArticles) > 0 /\ ~isLoading

\* classifiedArticles.findIndex(a => a.title === ... && a.abstract === ...)
originalIndex(article) ==
  CHOOSE i \in 1..Len(classifiedArticles) :
    /\ SameIdentity(classifiedArticles[i].article, article)
    /\ \A j \in 1..(i - 1) : ~SameIdentity(classifiedArticles[j].article, article)

ManualReason(newInclude) ==
  IF newInclude THEN <<"Manually changed to Include by user">>
  ELSE <<"Manually changed to Exclude by user">>

handleClassificationChange(index, newInclude) ==
  /\ showResults
  /\ \E k \in 1..Len(classifiedArticles) :
       index = originalIndex(classifiedArticles[k].article)
  /\ classifiedArticles' =
       [classifiedArticles EXCEPT
          ![index].classification.include = newInclude,
          ![index].classification.reason = ManualReason(newInclude)]
  /\ imported' = Null
  /\ notice' = Null
  /\ UNCHANGED <<filterClassification, filterCriterion>>
  /\ UNCHANGED <<criteria, articles, isLoading, progress, fileName,
                 isCancelledRef, originalArticleData, aiProvider, runs,
                 started, lineage>>

\* decimal numeral of a list position
Numeral(n) == <<"1", "2", "3", "4", "5", "6", "7", "8", "9">>[n]

\* `${idx + 1}. ${criterion}`
NumberedCriterion(idx, criterion) == <<Numeral(idx), ".", " ">> \o criterion

\* the values offered by the criterion selector of a row
CriterionOptions ==
  IF criteria = Null THEN {}
  ELSE { NumberedCriterion(i, criteria[1].inclusion[i]) :
           i \in 1..Len(criteria[1].inclusion) }
       \cup
       { NumberedCriterion(i, criteria[1].exclusion[i]) :
           i \in 1..Len(criteria[1].exclusion) }

handleCriterionChange(index, newCriterion) ==
  /\ showResults
  /\ \E k \in 1..Len(classifiedArticles) :
       index = originalIndex(classifiedArticles[k].article)
  /\ classifiedArticles' =
       [classifiedArticles EXCEPT
          ![index].classification.criterion = newCriterion,
          ![index].classification.reason =
             <<"Criterion manually changed by user to: ">> \o newCriterion]
  /\ imported' = Null
  /\ notice' = Null
  /\ UNCHANGED <<filterClassification, filterCriterion>>
  /\ UNCHANGED <<criteria, articles, isLoading, progress, fileName,
                 isCancelledRef, originalArticleData, aiProvider, runs,
                 started, lineage>>

----------------------------------------------------------------------------
(* Result aggregation (useMemo values derived from classifiedArticles) *)

CountWhere(s, P(_)) == Cardinality({ i \in 1..Len(s) : P(s[i]) })

classificationCounts ==
  LET inc(a) == a.classification.include
      exc(a) == ~a.classification.include
  IN [ included |-> CountWhere(classifiedArticles, inc),
       excluded |-> CountWhere(classifiedArticles, exc),
       total    |-> Len(classifiedArticles) ]

\* variant: only the empty criterion is skipped, not a whitespace-only one
SkipsOnlyEmpty(criterion) == criterion = <<>>

\* if (!criterion || criterion.trim() === '') return;
SkippedCriterion(criterion) == criterion = <<>> \/ trim(criterion) = <<>>

\* position of key in the Map's insertion order, 0 when absent
KeyIndex(stats, key) ==
  IF \E i \in 1..Len(stats) : stats[i].criterion = key
  THEN CHOOSE i \in 1..Len(stats) : stats[i].criterion = key
  ELSE 0

\* one iteration of the forEach of criteriaStatistics
StatsStep(stats, a) ==
  IF SkippedCriterion(a.classification.criterion) THEN stats
  ELSE LET key == trim(a.classification.criterion)
           at == KeyIndex(stats, key)
           existing == IF at = 0
                       THEN [criterion |-> key, included |-> 0, excluded |-> 0, total |-> 0]
                       ELSE stats[at]
           updated == [existing EXCEPT
                         !.included = IF a.classification.include THEN @ + 1 ELSE @,
                         !.excluded = IF a.classification.include THEN @ ELSE @ + 1,
                         !.total = @ + 1]
       IN IF at = 0 THEN Append(stats, updated)
          ELSE [stats EXCEPT ![at] = updated]

RECURSIVE StatsFold(_, _)
StatsFold(stats, list) ==
  IF list = <<>> THEN stats
  ELSE StatsFold(StatsStep(stats, Head(list)), Tail(list))

\* variant: the list is kept in ascending order of total
RECURSIVE InsertByTotalAscending(_, _)
InsertByTotalAscending(sorted, x) ==
  IF sorted = <<>> THEN <<x>>
  ELSE IF Head(sorted).total <= x.total
       THEN <<Head(sorted)>> \o InsertByTotalAscending(Tail(sorted), x)
       ELSE <<x>> \o sorted

\* stable insertion of x into a list sorted by total, descending
RECURSIVE InsertByTotal(_, _)
InsertByTotal(sorted, x) ==
  IF sorted = <<>> THEN <<x>>
  ELSE IF Head(sorted).total >= x.total
       THEN <<Head(sorted)>> \o InsertByTotal(Tail(sorted), x)
       ELSE <<x>> \o sorted

\* .sort((a, b) => b.total - a.total)  (Array.prototype.sort is stable)
RECURSIVE SortByTotal(_, _)
SortByTotal(done, rest) ==
  IF rest = <<>> THEN done
  ELSE SortByTotal(InsertByTotal(done, Head(rest)), Tail(rest))

criteriaStatistics == SortByTotal(<<>>, StatsFold(<<>>, classifiedArticles))

----------------------------------------------------------------------------
(* Result filters (results card) *)

\* the lower-case form of one token
LowerToken(ch) ==
  CASE ch = "A" -> "a"
    [] ch = "C" -> "c"
    [] ch = "L" -> "l"
    [] ch = "X" -> "x"
    [] ch = "Loaded from previous results" -> "loaded from previous results"
    [] OTHER -> ch

\* variant: the case of the text is kept
KeepCase(text) == text

\* String.prototype.toLowerCase
toLowerCase(text) == [i \in 1..Len(text) |-> LowerToken(text[i])]

\* String.prototype.includes
includes(text, part) ==
  \E at \in 0..(Len(text) - Len(part)) :
    SubSeq(text, at + 1, at + Len(part)) = part

\* the predicate of the filter of filteredArticles
MatchesFilters(entry, classification, criterion) ==
  LET matchesClassification ==
        \/ classification = "all"
        \/ (classification = "include" /\ entry.classification.include)
        \/ (classification = "exclude" /\ ~entry.classification.include)
      matchesCriterion ==
        \/ criterion = AllCriteria
        \/ includes(toLowerCase(entry.classification.criterion),
                    toLowerCase(criterion))
  IN matchesClassification /\ matchesCriterion

\* classifiedArticles.filter(...) for given values of the two filters
FilteredBy(classification, criterion) ==
  LET keep(entry) == MatchesFilters(entry, classification, criterion)
  IN FilterSeq(classifiedArticles, keep)

filteredArticles == FilteredBy(filterClassification, filterCriterion)

\* the criteria offered by the criterion filter: for every normalized
\* (trimmed, lower-case) criterion the trimmed text of the first record
\* that has it
uniqueCriteria ==
  LET normalized(k) == toLowerCase(trim(classifiedArticles[k].classification.criterion))
      named == { k \in 1..Len(classifiedArticles) :
                   trim(classifiedArticles[k].classification.criterion) # <<>> }
  IN { trim(classifiedArticles[k].classification.criterion) :
         k \in { i \in named : \A j \in named : normalized(j) = normalized(i) => i <= j } }

setFilterClassification(value) ==
  /\ showResults
  /\ filterClassification' = value
  /\ clicked' = Null
  /\ response' = Null
  /\ UNCHANGED listing
  /\ UNCHANGED <<criteria, articles, classifiedArticles, isLoading, progress,
                 fileName, isCancelledRef, originalArticleData, aiProvider,
                 runs, started, lineage, imported, notice, filterCriterion>>

setFilterCriterion(value) ==
  /\ showResults
  /\ value \in {AllCriteria} \cup uniqueCriteria
  /\ filterCriterion' = value
  /\ clicked' = Null
  /\ response' = Null
  /\ UNCHANGED listing
  /\ UNCHANGED <<criteria, articles, classifiedArticles, isLoading, progress,
                 fileName, isCancelledRef, originalArticleData, aiProvider,
                 runs, started, lineage, imported, notice, filterClassification>>

clearFilters ==
  /\ showResults
  /\ filterClassification # "all" \/ filterCriterion # AllCriteria
  /\ filterClassification' = "all"
  /\ filterCriterion' = AllCriteria
  /\ clicked' = Null
  /\ response' = Null
  /\ UNCHANGED listing
  /\ UNCHANGED <<criteria, articles, classifiedArticles, isLoading, progress,
                 fileName, isCancelledRef, originalArticleData, aiProvider,
                 runs, started, lineage, imported, notice>>


\* the rows of the results table are the records of filteredArticles

\* the Include / Exclude button of a row of the results table: the handler
\* is given the originalIndex computed for the row
ClassificationClicked(row, newInclude) ==
  /\ row \in 1..Len(classifiedArticles)
  /\ MatchesFilters(classifiedArticles[row], filterClassification, filterCriterion)
  /\ handleClassificationChange(originalIndex(classifiedArticles[row].article),
                                newInclude)
  /\ clicked' = Some([row |-> row, include |-> Some(newInclude),
                      criterion |-> Null])
  /\ response' = Null
  /\ UNCHANGED listing

\* the criterion selector of a row of the results table
CriterionPicked(row, newCriterion) ==
  /\ row \in 1..Len(classifiedArticles)
  /\ MatchesFilters(classifiedArticles[row], filterClassification, filterCriterion)
  /\ handleCriterionChange(originalIndex(classifiedArticles[row].article),
                           newCriterion)
  /\ clicked' = Some([row |-> row, include |-> Null,
                      criterion |-> Some(newCriterion)])
  /\ response' = Null
  /\ UNCHANGED listing

----------------------------------------------------------------------------
(* Criteria form, import and export as steps of the page *)

CurrentSession ==
  Session(criteria, articles, classifiedArticles, originalArticleData, fileName)

\* the state updates a handler queued, applied
SessionBecomes(s) ==
  /\ criteria' = s.criteria
  /\ articles' = s.articles
  /\ classifiedArticles' = s.classifiedArticles
  /\ originalArticleData' = s.originalArticleData
  /\ fileName' = s.fileName

CriteriaSubmitted ==
  /\ \E data \in CriteriaForms :
       SessionBecomes(onCriteriaSubmit(CurrentSession, data))
  /\ imported' = Null
  /\ notice' = Null
  /\ UNCHANGED <<filterClassification, filterCriterion>>
  /\ clicked' = Null
  /\ response' = Null
  /\ UNCHANGED listing
  /\ lineage' = Foreign
  /\ UNCHANGED <<isLoading, progress, isCancelledRef, aiProvider, runs, started>>

CriteriaReset ==
  /\ criteria # Null
  /\ SessionBecomes(handleResetCriteria(CurrentSession))
  /\ imported' = Null
  /\ notice' = Null
  /\ UNCHANGED <<filterClassification, filterCriterion>>
  /\ clicked' = Null
  /\ response' = Null
  /\ UNCHANGED listing
  /\ lineage' = Foreign
  /\ UNCHANGED <<isLoading, progress, isCancelledRef, aiProvider, runs, started>>

SampleDataLoaded ==
  /\ showDataCard
  /\ SessionBecomes(handleLoadSampleData(CurrentSession))
  /\ imported' = Null
  /\ notice' = Null
  /\ UNCHANGED <<filterClassification, filterCriterion>>
  /\ clicked' = Null
  /\ response' = Null
  /\ UNCHANGED listing
  /\ lineage' = Foreign
  /\ UNCHANGED <<isLoading, progress, isCancelledRef, aiProvider, runs, started>>

\* handleFileChange and reader.onload for a file picked in the card;
\* `imported` keeps what this import was given and what it answered
FileImported(file, exported) ==
  /\ showDataCard
  /\ SessionBecomes(handleFileChange(CurrentSession, file))
  /\ imported' = Some([ file |-> file,
                        route |-> FileChangeRoute(file),
                        toast |-> FileChangeToast(file),
                        before |-> CurrentSession,
                        exported |-> exported ])
  /\ notice' = Null
  /\ UNCHANGED <<filterClassification, filterCriterion>>
  /\ clicked' = Null
  /\ response' = Null
  /\ UNCHANGED listing
  /\ lineage' = Foreign
  /\ UNCHANGED <<isLoading, progress, isCancelledRef, aiProvider, runs, started>>

\* variant: the columns of the original row win over the verdict columns
ExportRowOriginalWins(entry, pool) ==
  LET originalRow ==
        IF entry.originalData # Null THEN entry.originalData[1]
        ELSE IF FindOriginal(pool, entry.article) # Null
             THEN FindOriginal(pool, entry.article)[1]
             ELSE <<>>
      columns == (DOMAIN originalRow) \cup {"classification", "reason", "criterion"}
  IN [ c \in columns |->
         IF c \in DOMAIN originalRow THEN originalRow[c]
         ELSE IF c = "classification"
         THEN (IF entry.classification.include THEN "Include" ELSE "Exclude")
         ELSE IF c = "reason" THEN entry.classification.reason
         ELSE entry.classification.criterion ]

\* the row exportToXlsx writes for one classified record
ExportRow(entry, pool) ==
  LET originalRow ==
        IF entry.originalData # Null THEN entry.originalData[1]
        ELSE IF FindOriginal(pool, entry.article) # Null
             THEN FindOriginal(pool, entry.article)[1]
             ELSE <<>>
      columns == (DOMAIN originalRow) \cup {"classification", "reason", "criterion"}
  IN [ c \in columns |->
         IF c = "classification"
         THEN (IF entry.classification.include THEN "Include" ELSE "Exclude")
         ELSE IF c = "reason" THEN entry.classification.reason
         ELSE IF c = "criterion" THEN entry.classification.criterion
         ELSE originalRow[c] ]

\* exportData of exportToXlsx: the rows of the "Classification Results"
\* sheet; sheet_to_json gives every row back with the cells it was written
\* with
exportToXlsx(completed, pool) ==
  [ k \in 1..Len(completed) |-> ExportRow(completed[k], pool) ]

ExportedFile ==
  [ name |-> "screhelper-results.xlsx",
    rows |-> exportToXlsx(classifiedArticles, originalArticleData) ]

\* Export to XLSX, then the downloaded file is picked in the card
ExportReimported ==
  /\ showResults /\ criteria # Null
  /\ FileImported(ExportedFile, TRUE)

\* spreadsheets whose first row lacks a required column, carries a marker
\* other than classification, or carries criteria; a cell left empty in the
\* sheet is absent from the row
OtherFiles ==
  { [name |-> "title-only.xlsx", rows |-> << [title |-> "t1"] >>],
    [name |-> "abstract-only.xlsx", rows |-> << [abstract |-> "a1"] >>],
    [name |-> "doi-only.xlsx", rows |-> << [doi |-> "d1"] >>],
    [name |-> "results-no-title.xlsx",
     rows |-> << [abstract |-> "a1", classification |-> "Include"] >>],
    [name |-> "results-no-columns.xlsx",
     rows |-> << [classification |-> "Include", reason |-> <<"r">>] >>],
    [name |-> "late-marker.xlsx",
     rows |-> << [title |-> "t1", abstract |-> "a1"],
                 [title |-> "t2", abstract |-> "a2", classification |-> "Include"] >>],
    [name |-> "reason-only.xlsx",
     rows |-> << [title |-> "t1", abstract |-> "a1", reason |-> <<"r">>] >>],
    [name |-> "legacy.xlsx",
     rows |-> << [title |-> "t1", abstract |-> "a1", ai_include |-> "true",
                  ai_reason |-> <<"r">>, ai_criterion |-> <<"c">>,
                  final_include |-> "false", final_reason |-> <<"f">>] >>],
    [name |-> "with-criteria.xlsx",
     rows |-> << [title |-> "t1", abstract |-> "a1", classification |-> "Exclude",
                  reason |-> <<"r">>, criterion |-> <<"x">>,
                  inclusion_criteria |-> <<"c", "|", " ", "|", "d">>,
                  exclusion_criteria |-> <<"x">>] >>],
    [name |-> "numeric-criteria.xlsx",
     rows |-> << [title |-> "t1", abstract |-> "a1", classification |-> "Include",
                  inclusion_criteria |-> NumberCell,
                  exclusion_criteria |-> <<"x">>] >>],
    [name |-> "schemas.xlsx",
     rows |-> << [title |-> "t1", abstract |-> "a1", classification |-> "",
                  reason |-> <<"r">>, final_include |-> "true",
                  final_reason |-> <<"f">>, final_criterion |-> <<"c">>],
                 [title |-> "t2", abstract |-> "a2", manual_include |-> "Include",
                  ai_include |-> "false", ai_reason |-> <<"r">>,
                  ai_criterion |-> <<"x">>],
                 [title |-> "t3", abstract |-> "a3", ai_include |-> "true",
                  ai_reason |-> <<"r">>, ai_criterion |-> <<"c">>],
                 [title |-> "t4", abstract |-> "a4", classification |-> "",
                  reason |-> <<"r">>, criterion |-> <<"c">>] >>],
    [name |-> "gaps.xlsx",
     rows |-> << [title |-> "t1", abstract |-> "a1"],
                 [title |-> "t2"],
                 [abstract |-> "a3"],
                 [title |-> "", abstract |-> "a4"],
                 [title |-> "t3", abstract |-> "a3"] >>],
    [name |-> "results-gaps.xlsx",
     rows |-> << [title |-> "t1", abstract |-> "a1", classification |-> "Include"],
                 [title |-> "t2", classification |-> "Exclude"],
                 [abstract |-> "a3", classification |-> "Include"],
                 [title |-> "t3", abstract |-> "a3", classification |-> "Exclude"] >>] }

----------------------------------------------------------------------------
(* Specifications *)

\* the results table of a page that holds imported results
PreparedResults == { s \in Prepared : Len(s.classifiedArticles) > 0 }

InitResults ==
  /\ \E s \in PreparedResults :
       /\ criteria = s.criteria
       /\ articles = s.articles
       /\ classifiedArticles = s.classifiedArticles
       /\ originalArticleData = s.originalArticleData
       /\ fileName = s.fileName
  /\ isLoading = FALSE
  /\ progress = Zero
  /\ isCancelledRef = FALSE
  /\ aiProvider = "gemini"
  /\ runs = <<>>
  /\ started = 0
  /\ lineage = NoLineage
  /\ imported = Null
  /\ notice = Null
  /\ filterClassification = "all"
  /\ filterCriterion = AllCriteria
  /\ clicked = Null
  /\ response = Null
  /\ listing = <<>>

NextResults ==
  \/ \E row \in 1..Len(classifiedArticles) : \E newInclude \in BOOLEAN :
       ClassificationClicked(row, newInclude)
  \/ \E row \in 1..Len(classifiedArticles) : \E newCriterion \in CriterionOptions :
       CriterionPicked(row, newCriterion)

SpecResults == InitResults /\ [][NextResults]_vars

\* a backend that always returns a verdict, and a user who only starts runs
NextSteady ==
  \/ handleRunAnalysis(TRUE)
  \/ TaskSucceeds

\* every backend call returns
SpecSteady == Init /\ [][NextSteady]_vars /\ WF_vars(TaskSucceeds)

\* the providers of the settings card
Providers == {"gemini", "ollama", "deepseek"}

\* the page with criteria set, records loaded and a provider selected
InitCalls ==
  /\ \E s \in Prepared :
       /\ criteria = s.criteria
       /\ articles = s.articles
       /\ classifiedArticles = s.classifiedArticles
       /\ originalArticleData = s.originalArticleData
       /\ fileName = s.fileName
  /\ isLoading = FALSE
  /\ progress = Zero
  /\ isCancelledRef = FALSE
  /\ aiProvider \in Providers
  /\ runs = <<>>
  /\ started = 0
  /\ lineage = NoLineage
  /\ imported = Null
  /\ notice = Null
  /\ filterClassification = "all"
  /\ filterCriterion = AllCriteria
  /\ clicked = Null
  /\ response = Null
  /\ listing = <<>>

\* fetch resolves with the response headers: clearTimeout(timeoutId), then
\* the adapter awaits response.json()
ResponseArrives ==
  \E <<r, i>> \in Flying :
    /\ runs[r].batch[i].call.phase = "fetch"
    /\ runs' = [runs EXCEPT ![r].batch[i].call = [phase |-> "body", timer |-> FALSE]]
    /\ imported' = Null
    /\ notice' = Null
    /\ UNCHANGED <<filterClassification, filterCriterion>>
    /\ clicked' = Null
    /\ response' = Null
    /\ UNCHANGED listing
    /\ UNCHANGED <<criteria, articles, classifiedArticles, isLoading, progress,
                   fileName, isCancelledRef, originalArticleData, aiProvider,
                   started, lineage>>

\* the flow (gemini) or response.json() (ollama, deepseek) resolves
VerdictArrives ==
  \E <<r, i>> \in Flying : \E v \in Verdicts :
    /\ runs[r].batch[i].call.phase \in {"flow", "body"}
    /\ TaskReturns(r, i, TRUE, v)
    /\ response' = Null

\* the abort timer fires: controller.abort() rejects fetch with AbortError
\* and the adapter throws the Timeout error
TimerFires ==
  \E <<r, i>> \in Flying :
    /\ runs[r].batch[i].call.timer
    /\ TaskReturns(r, i, FALSE, NoVerdict)
    /\ response' = Null

\* a backend that may answer, fail or stay silent in either phase of a call
NextCalls ==
  \/ handleRunAnalysis(TRUE)
  \/ ResponseArrives
  \/ VerdictArrives
  \/ TimerFires
  \/ TaskFails

\* an armed timer fires unless it is cleared; nothing makes the backend answer
SpecCalls == InitCalls /\ [][NextCalls]_vars /\ WF_vars(TimerFires)

\* a spreadsheet of fresh records in which two rows have the same title and
\* abstract and a third shares only the abstract
DuplicateFile ==
  [ name |-> "duplicates.xlsx",
    rows |-> << [title |-> "t1", abstract |-> "a1", doi |-> "d1"],
                [title |-> "t1", abstract |-> "a1", doi |-> "d2"],
                [title |-> "t2", abstract |-> "a1", doi |-> "d3"] >> ]

\* that file loaded, and the sample data loaded after it
PreparedDuplicates ==
  { handleFileChange(s, DuplicateFile) : s \in Prepared0 }
  \cup { handleLoadSampleData(handleFileChange(s, DuplicateFile)) : s \in Prepared0 }

InitRequests ==
  /\ \E s \in PreparedDuplicates :
       /\ criteria = s.criteria
       /\ articles = s.articles
       /\ classifiedArticles = s.classifiedArticles
       /\ originalArticleData = s.originalArticleData
       /\ fileName = s.fileName
  /\ isLoading = FALSE
  /\ progress = Zero
  /\ isCancelledRef = FALSE
  /\ aiProvider \in Providers
  /\ runs = <<>>
  /\ started = 0
  /\ lineage = NoLineage
  /\ imported = Null
  /\ notice = Null
  /\ filterClassification = "all"
  /\ filterCriterion = AllCriteria
  /\ clicked = Null
  /\ response = Null
  /\ listing = <<>>

\* Run and Continue requests with and without a model selected
SpecRequests == InitRequests /\ [][Next]_vars

\* loads and criteria changes between and during runs
NextLive ==
  \/ handleRunAnalysis(TRUE)
  \/ TaskSucceeds
  \/ CriteriaSubmitted
  \/ CriteriaReset
  \/ SampleDataLoaded
  \/ \E file \in Files : FileImported(file, FALSE)

SpecLive == Init /\ [][NextLive]_vars

\* runs that are interrupted and started again, with a backend that always
\* returns a verdict
NextResume ==
  \/ handleRunAnalysis(TRUE)
  \/ handleContinueAnalysis(TRUE)
  \/ handleInterrupt
  \/ TaskSucceeds

SpecResume == Init /\ [][NextResume]_vars /\ WF_vars(TaskSucceeds)

\* the page before criteria are set; files are picked while no run is
\* pending
InitImport ==
  /\ criteria = Constructed.criteria
  /\ articles = Constructed.articles
  /\ classifiedArticles = Constructed.classifiedArticles
  /\ originalArticleData = Constructed.originalArticleData
  /\ fileName = Constructed.fileName
  /\ isLoading = FALSE
  /\ progress = Zero
  /\ isCancelledRef = FALSE
  /\ aiProvider = "gemini"
  /\ runs = <<>>
  /\ started = 0
  /\ lineage = NoLineage
  /\ imported = Null
  /\ notice = Null
  /\ filterClassification = "all"
  /\ filterCriterion = AllCriteria
  /\ clicked = Null
  /\ response = Null
  /\ listing = <<>>

NextImport ==
  \/ CriteriaSubmitted
  \/ CriteriaReset
  \/ SampleDataLoaded
  \/ \E file \in Files \cup OtherFiles : FileImported(file, FALSE)

SpecImport == InitImport /\ [][NextImport]_vars

\* a run to its end with a backend that always returns a verdict, manual
\* changes in the results table, then export and import of the exported file
NextRoundTrip ==
  \/ handleRunAnalysis(TRUE)
  \/ TaskSucceeds
  \/ \E row \in 1..Len(classifiedArticles) : \E newInclude \in BOOLEAN :
       ClassificationClicked(row, newInclude)
  \/ ExportReimported

SpecRoundTrip == Init /\ [][NextRoundTrip]_vars

----------------------------------------------------------------------------
(* Properties *)

\* no two records of the list have the same title and the same abstract
UniqueIdentities(list) ==
  \A i, j \in 1..Len(list) :
    i # j => ~(list[i].title = list[j].title /\ list[i].abstract = list[j].abstract)

\* number of entries of completed with the title and abstract of a
TimesCompleted(a, completed) ==
  Cardinality({ j \in 1..Len(completed) :
                  /\ completed[j].article.title = a.title
                  /\ completed[j].article.abstract = a.abstract })

\* the current lineage started on a page with no call pending and has seen
\* only Run, Continue, Interrupt and task completions since
ResumableLineage == lineage.run # 0 /\ lineage.fresh /\ lineage.clean

\* the call of runAnalysisForArticles started last
LastRun(rs) == rs[Len(rs)]

\* C1: at no instant are more than CONCURRENT_REQUESTS backend
\* classification calls in flight.
C1_ConcurrencyBound == InFlight <= CONCURRENT_REQUESTS

\* C2: within one resumable lineage over records with unique identities,
\* completed never holds a record twice and no backend call is in flight for
\* a record that is already in completed.
C2_NeverProcessedTwice ==
  (ResumableLineage /\ UniqueIdentities(articles)) =>
     /\ \A k \in 1..Len(classifiedArticles) :
          TimesCompleted(classifiedArticles[k].article, classifiedArticles) = 1
     /\ \A f \in Flying :
          TimesCompleted(runs[f[1]].batch[f[2]].article, classifiedArticles) = 0

\* C3: with a backend that always returns a verdict, a run stopped after a
\* strict subset was classified and resumed with Continue ends with completed
\* holding every loaded record exactly once.
C3_IdempotentResume ==
  ( /\ ResumableLineage /\ lineage.resumed /\ lineage.failed = {}
    /\ UniqueIdentities(articles)
    /\ ~isCancelledRef
    /\ \A r \in 1..Len(runs) : runs[r].settled )
  => /\ Len(classifiedArticles) = Len(articles)
     /\ \A i \in 1..Len(articles) :
          TimesCompleted(articles[i], classifiedArticles) = 1

\* C4: once Interrupt was requested during a run, that run appends no result
\* to completed and dispatches no further wave.
C4_InterruptedRunIsInert ==
  [][ \A r \in 1..Len(runs) : \A q \in 1..Len(runs') :
        (runs'[q].id = runs[r].id /\ runs[r].interrupted) =>
           /\ runs'[q].appended = runs[r].appended
           /\ runs'[q].dispatched = runs[r].dispatched ]_vars

C6_ContinuePending ==
  [][ (started' = started + 1 /\ LastRun(runs').kind = "continue") =>
        LET handed == LastRun(runs').articlesToAnalyze
            pendingAt == { i \in 1..Len(articles) :
                             TimesCompleted(articles[i], classifiedArticles) = 0 }
        IN /\ Len(handed) = Cardinality(pendingAt)
           /\ \A i \in pendingAt :
                handed[Cardinality({ j \in pendingAt : j <= i })] = articles[i]
           /\ LastRun(runs').totalArticles = Len(handed)
           /\ classifiedArticles' = classifiedArticles ]_vars

\* a Continue whose pending list holds a record whose result an Interrupt
\* discarded, a record whose classification failed and a record never
\* dispatched before
C6_Witness ==
  /\ runs # <<>> /\ LastRun(runs).kind = "continue"
  /\ LastRun(runs).articlesProcessed = 0
  /\ \E a \in lineage.dropped : \E b \in lineage.failed :
       \E k, l, m \in 1..Len(LastRun(runs).articlesToAnalyze) :
         /\ LastRun(runs).articlesToAnalyze[k] = a
         /\ LastRun(runs).articlesToAnalyze[l] = b
         /\ LastRun(runs).articlesToAnalyze[m] \notin (lineage.dropped \cup lineage.failed)

\* C7: a classification error of one record appends nothing, leaves the
\* cancellation flag alone, leaves the sibling calls of the wave in flight
\* and, when it settles the wave, is followed by the next wave whenever
\* records are still queued.
C7_ErrorIsIsolated ==
  [][ \A r \in 1..Len(runs) : \A q \in 1..Len(runs') :
        (runs'[q].id = runs[r].id /\ runs'[q].failed = runs[r].failed + 1) =>
          LET before == { j \in 1..Len(runs[r].batch) :
                            runs[r].batch[j].state = "flying" }
              queue == runs[r].articlesToProcess
              wave == IF Len(queue) < CONCURRENT_REQUESTS
                      THEN Len(queue) ELSE CONCURRENT_REQUESTS
          IN /\ classifiedArticles' = classifiedArticles
             /\ isCancelledRef' = isCancelledRef
             /\ IF Cardinality(before) > 1
                THEN /\ Cardinality({ j \in before :
                                        runs'[q].batch[j] = runs[r].batch[j] })
                          = Cardinality(before) - 1
                     /\ runs'[q].articlesToProcess = queue
                     /\ ~runs'[q].settled
                ELSE IF queue # <<>>
                THEN /\ Len(runs'[q].batch) = wave
                     /\ \A j \in 1..wave :
                          /\ runs'[q].batch[j].article = queue[j]
                          /\ runs'[q].batch[j].state = "flying"
                     /\ runs'[q].articlesToProcess = SubSeq(queue, wave + 1, Len(queue))
                     /\ ~runs'[q].settled
                ELSE runs'[q].settled ]_vars

\* a run in which a record failed, another was appended, and a wave after
\* the first one is in flight
C7_Witness ==
  \E r \in 1..Len(runs) :
    /\ runs[r].failed >= 1 /\ runs[r].appended >= 1
    /\ runs[r].dispatched > CONCURRENT_REQUESTS
    /\ ~runs[r].interrupted
    /\ \E j \in 1..Len(runs[r].batch) : runs[r].batch[j].state = "flying"

\* C8: with a backend that always returns a verdict and no Interrupt, a Run
\* over records with unique identities reaches Settled, and then completed
\* holds every loaded record exactly once, the processed count is the number
\* of records and progress is 100%.
C8_RunCompletes ==
  /\ []( (started > 0 /\ ~isLoading /\ UniqueIdentities(articles)) =>
           /\ Len(classifiedArticles) = Len(articles)
           /\ \A i \in 1..Len(articles) :
                TimesCompleted(articles[i], classifiedArticles) = 1
           /\ LastRun(runs).settled
           /\ LastRun(runs).articlesProcessed = Len(articles)
           /\ progress.n = Len(articles) /\ progress.d = Len(articles) )
  /\ (isLoading ~> ~isLoading)

\* a settled run of two waves
C8_Witness ==
  /\ started > 0 /\ ~isLoading
  /\ Len(articles) > CONCURRENT_REQUESTS
  /\ Len(classifiedArticles) = Len(articles)
  /\ progress.n = progress.d

\* C9: once a fresh Run has started, completed holds only records classified
\* by that Run and the Continue calls after it.
C9_RunStartsFromEmpty ==
  (lineage.run # 0 /\ lineage.clean) =>
     \A k \in 1..Len(classifiedArticles) : classifiedArticles[k].by = lineage.run

RECURSIVE SumTotals(_)
SumTotals(stats) ==
  IF stats = <<>> THEN 0 ELSE Head(stats).total + SumTotals(Tail(stats))

\* records of completed whose criterion is empty or made of spaces only
BlankCriterionCount ==
  Cardinality({ k \in 1..Len(classifiedArticles) :
     \A c \in 1..Len(classifiedArticles[k].classification.criterion) :
        classifiedArticles[k].classification.criterion[c] = " " })

\* C10: included + excluded = |completed|, and the totals of the
\* per-criterion groups plus the records with an empty or whitespace-only
\* criterion add up to |completed|.
C10_AggregationAddsUp ==
  /\ classificationCounts.included + classificationCounts.excluded
       = Len(classifiedArticles)
  /\ SumTotals(criteriaStatistics) + BlankCriterionCount = Len(classifiedArticles)

\* a manually reclassified set with a whitespace-only criterion and a group
\* of two records
C10_Witness ==
  /\ BlankCriterionCount >= 1
  /\ \E k \in 1..Len(classifiedArticles) : \E b \in BOOLEAN :
       classifiedArticles[k].classification.reason = ManualReason(b)
  /\ \E g \in 1..Len(criteriaStatistics) : criteriaStatistics[g].total >= 2

\* the first row of the file carries one of the result marker columns
FirstRowHasMarker(file) ==
  Len(file.rows) > 0 /\ (DOMAIN file.rows[1]) \cap ResultMarkers # {}

\* C11: a file whose first row carries a classification column or another
\* result marker column is handled by the previous-results path, also when
\* it has title and abstract columns; a file whose first row carries no
\* marker is handled by the fresh-records path.
C11_RoutedByFirstRow ==
  imported # Null =>
    LET file == imported[1].file
        toast == imported[1].toast
    IN IF FirstRowHasMarker(file)
       THEN /\ imported[1].route = "previous"
            /\ toast = LoadPreviousResultsToast(file.rows)
            /\ originalArticleData = imported[1].before.originalArticleData
       ELSE /\ imported[1].route = "fresh"
            /\ toast = LoadNewArticlesToast(file.rows)
            /\ (toast.variant = "default" => classifiedArticles = <<>>)

\* a file with title, abstract and classification columns was loaded as
\* previous results
C11_Witness ==
  /\ imported # Null
  /\ Len(imported[1].file.rows) > 1
  /\ {"title", "abstract", "classification"} \subseteq DOMAIN imported[1].file.rows[1]
  /\ imported[1].route = "previous"
  /\ Len(classifiedArticles) = Len(imported[1].file.rows)
  /\ Len(classifiedArticles) > 1

\* C12: after export and import of the exported file, completed holds the
\* records it held before, each with the include, reason and criterion values
\* it had.
C12_RoundTrip ==
  (imported # Null /\ imported[1].exported) =>
    LET exported == imported[1].before.classifiedArticles
    IN /\ imported[1].toast.variant = "default"
       /\ Len(classifiedArticles) = Len(exported)
       /\ \A k \in 1..Len(exported) :
            /\ classifiedArticles[k].article.title = exported[k].article.title
            /\ classifiedArticles[k].article.abstract = exported[k].article.abstract
            /\ classifiedArticles[k].classification = exported[k].classification

\* C13: the import of a file with no rows is answered with the empty-input
\* error and changes neither the loaded records, completed nor the
\* original-row pool.
C13_EmptyInputRejected ==
  (imported # Null /\ Len(imported[1].file.rows) = 0) =>
    /\ imported[1].toast.variant = "destructive"
    /\ imported[1].toast.description = <<"Empty file.">>
    /\ articles = imported[1].before.articles
    /\ classifiedArticles = imported[1].before.classifiedArticles
    /\ originalArticleData = imported[1].before.originalArticleData

\* the required columns a notification names
NamedColumns(toast) ==
  { toast.description[i] : i \in 1..Len(toast.description) }
    \cap {"title", "abstract"}

\* C14: the import of a file whose first row lacks title or abstract is
\* answered with an error that names the absent required columns and no
\* other, on either path.
C14_MissingColumnsNamed ==
  imported # Null =>
    LET file == imported[1].file
        absent == IF Len(file.rows) = 0 THEN {}
                  ELSE {"title", "abstract"} \ DOMAIN file.rows[1]
    IN absent # {} =>
         /\ imported[1].toast.variant = "destructive"
         /\ NamedColumns(imported[1].toast) = absent

\* C15: an import answered with an error leaves the loaded records,
\* completed, the criteria, the original-row pool and the file name as they
\* were before the file was picked.
C15_FailedImportLeavesState ==
  (imported # Null /\ imported[1].toast.variant = "destructive") =>
    CurrentSession = imported[1].before

\* task i of the run at position r is awaiting its backend call and the run
\* has dispatched d records so far
CallPending(r, i, d) ==
  /\ r <= Len(runs) /\ <<r, i>> \in Flying
  /\ runs[r].dispatched = d

\* C16: every backend call returns a verdict or an error, whatever the
\* provider and whether the backend stays silent before the response or
\* while its body is read.
C16_EveryCallReturns ==
  \A r \in 1..MaxRuns : \A i \in 1..CONCURRENT_REQUESTS :
    \A d \in 1..(Len(sampleArticles) + MaxRows) :
      CallPending(r, i, d) ~> ~CallPending(r, i, d)

\* C17: the page never reports the batch settled (Run and Continue offered)
\* while a backend call of a task is in flight.
C17_SettledOnlyAfterDrain == ~isLoading => InFlight = 0

\* C18: a run interrupted before a later Run or Continue was started stays
\* cancelled: it appends no result and dispatches no wave after the later
\* call has started.
C18_CancellationSurvivesRestart ==
  [][ \A r \in 1..Len(runs) : \A q \in 1..Len(runs') :
        ( /\ runs'[q].id = runs[r].id
          /\ runs[r].interrupted
          /\ \E n \in 1..Len(runs) : runs[n].id > runs[r].id ) =>
           /\ runs'[q].appended = runs[r].appended
           /\ runs'[q].dispatched = runs[r].dispatched
           /\ \A f \in Flying' : f[1] = q => <<r, f[2]>> \in Flying ]_vars

\* C19: a run launches tasks only in the step that settles the last task of
\* its current wave, and then only if records are still queued and no
\* Interrupt was requested during the run.
C19_WaveBarrier ==
  [][ \A r \in 1..Len(runs) : \A q \in 1..Len(runs') :
        ( /\ runs'[q].id = runs[r].id
          /\ runs'[q].dispatched > runs[r].dispatched ) =>
           /\ Cardinality({ i \in 1..Len(runs[r].batch) :
                              runs[r].batch[i].state = "flying" }) = 1
           /\ runs[r].articlesToProcess # <<>>
           /\ ~runs[r].interrupted ]_vars

\* C20: a step in which a run commits a result adds exactly one entry, for a
\* record of that run's wave, after the entries completed held, and changes
\* none of them.
C20_AppendsAtEnd ==
  [][ \A r \in 1..Len(runs) : \A q \in 1..Len(runs') :
        ( /\ runs'[q].id = runs[r].id
          /\ runs'[q].appended = runs[r].appended + 1 ) =>
           /\ Len(classifiedArticles') = Len(classifiedArticles) + 1
           /\ SubSeq(classifiedArticles', 1, Len(classifiedArticles))
                = classifiedArticles
           /\ \E i \in 1..Len(runs[r].batch) :
                /\ runs[r].batch[i].state = "flying"
                /\ classifiedArticles'[Len(classifiedArticles')].article
                     = runs[r].batch[i].article ]_vars

\* a Continue over seeded results whose first two records were committed in
\* the reverse of the order they were submitted in
C20_Witness ==
  \E r \in 1..Len(runs) :
    LET n == Len(classifiedArticles)
    IN /\ runs[r].kind = "continue" /\ runs[r].appended = 2
       /\ n > 2
       /\ classifiedArticles[n - 1].article = runs[r].articlesToAnalyze[2]
       /\ classifiedArticles[n].article = runs[r].articlesToAnalyze[1]
       /\ classifiedArticles[1].by = 0

\* C21: a run hands every record of its list to the backend at most once:
\* the records dispatched so far are a prefix of the list, the current wave
\* is the end of that prefix and the queue is the rest, whether or not a
\* classification failed.
C21_DispatchedOnce ==
  \A r \in 1..Len(runs) :
    LET run == runs[r]
        n == Len(run.batch)
    IN /\ run.dispatched + Len(run.articlesToProcess) = run.totalArticles
       /\ run.articlesToProcess
            = SubSeq(run.articlesToAnalyze, run.dispatched + 1, run.totalArticles)
       /\ n <= run.dispatched
       /\ \A i \in 1..n :
            run.batch[i].article = run.articlesToAnalyze[run.dispatched - n + i]

\* a run of more than one wave that settled with a failed record, which is
\* not in completed
C21_Witness ==
  \E r \in 1..Len(runs) :
    /\ runs[r].settled /\ ~runs[r].interrupted
    /\ runs[r].failed >= 1
    /\ runs[r].dispatched = runs[r].totalArticles
    /\ runs[r].totalArticles > CONCURRENT_REQUESTS
    /\ runs[r].lineage = lineage.run
    /\ \E a \in lineage.failed : TimesCompleted(a, classifiedArticles) = 0

\* C22: a Continue starts with the processed count equal to the number of
\* records already in completed and with progress equal to that number over
\* the number of loaded records.
C22_ResumeCountsCompleted ==
  [][ (started' = started + 1 /\ LastRun(runs').kind = "continue") =>
        /\ LastRun(runs').articlesProcessed = Len(classifiedArticles)
        /\ LastRun(runs').totalArticles = Len(articles)
        /\ progress'.n * Len(articles) = Len(classifiedArticles) * progress'.d ]_vars

\* C23: while a batch is running the criteria are not replaced or reset, and
\* a verdict is appended only by a run that was started with the criteria
\* the session holds.
C23_CriteriaFixedWhileRunning ==
  [][ /\ isLoading => criteria' = criteria
      /\ \A r \in 1..Len(runs) : \A q \in 1..Len(runs') :
           ( /\ runs'[q].id = runs[r].id
             /\ runs'[q].appended = runs[r].appended + 1 ) =>
              runs[r].criteria = criteria ]_vars

\* C24: every record of completed has the title and abstract of a loaded
\* record, and with unique identities completed is not longer than the
\* loaded list.
C24_CompletedWithinLoaded ==
  /\ \A k \in 1..Len(classifiedArticles) :
       TimesCompleted(classifiedArticles[k].article,
                      [i \in 1..Len(articles) |-> [article |-> articles[i]]]) >= 1
  /\ (UniqueIdentities(articles)
        /\ UniqueIdentities([k \in 1..Len(classifiedArticles) |->
                               classifiedArticles[k].article]))
       => Len(classifiedArticles) <= Len(articles)

\* C25: a Run or Continue request that is turned down leaves completed,
\* progress, the cancellation flag and the Running flag as they were.
C25_RejectedRequestLeavesState ==
  [][ (notice' # Null /\ notice'[1].variant = "destructive") =>
        /\ classifiedArticles' = classifiedArticles
        /\ progress' = progress
        /\ isCancelledRef' = isCancelledRef
        /\ isLoading' = isLoading ]_vars

\* C26: when every loaded record has an entry in completed, no Continue run
\* is started, and the Continue request answered with "already complete"
\* changes neither completed, progress, the two flags nor the runs.
C26_ContinueWithNothingPending ==
  [][ /\ (\A i \in 1..Len(articles) :
             TimesCompleted(articles[i], classifiedArticles) >= 1)
        => ~(started' = started + 1 /\ LastRun(runs').kind = "continue")
      /\ (notice' = Some(AlreadyCompleteToast) /\ notice # notice') =>
           /\ \A i \in 1..Len(articles) :
                TimesCompleted(articles[i], classifiedArticles) >= 1
           /\ classifiedArticles' = classifiedArticles
           /\ progress' = progress
           /\ isCancelledRef' = isCancelledRef
           /\ isLoading' = isLoading
           /\ runs' = runs /\ started' = started ]_vars

\* Continue was requested while completed was shorter than the loaded list
\* and every loaded record had an entry
C26_Witness ==
  /\ notice = Some(AlreadyCompleteToast)
  /\ Len(classifiedArticles) > 0
  /\ Len(classifiedArticles) < Len(articles)
  /\ InFlight = 0

\* the only call recorded is one that was started after every earlier call
\* had returned
StartedAfterDrain ==
  Len(runs) = 1 /\ runs[1].id > 1 /\ ~runs[1].interrupted

\* C27: a Run or Continue started after the earlier call has returned runs
\* with cancellation cleared; with a backend that always returns a verdict it
\* settles unless it is interrupted, and then every loaded record has an
\* entry in completed and the page is not Running.
C27_CancellationNotSticky ==
  /\ []( (StartedAfterDrain /\ ~runs[1].settled) => (~isCancelledRef /\ isLoading) )
  /\ []( (StartedAfterDrain /\ runs[1].settled) =>
           /\ ~isLoading
           /\ runs[1].articlesProcessed = runs[1].totalArticles
           /\ \A i \in 1..Len(articles) :
                TimesCompleted(articles[i], classifiedArticles) >= 1 )
  /\ ( (StartedAfterDrain /\ ~runs[1].settled)
         ~> (Len(runs) = 1 /\ (runs[1].settled \/ runs[1].interrupted)) )

\* a Continue, started after an interrupted run had discarded a result and
\* drained, that settled with every loaded record classified
C27_Witness ==
  /\ StartedAfterDrain /\ runs[1].settled
  /\ runs[1].kind = "continue"
  /\ lineage.dropped # {}
  /\ Len(classifiedArticles) = Len(articles)
  /\ ~isLoading

\* C28: progress is the fraction of the records handed to the run started
\* last that have settled without cancellation; it is at most 1.
C28_ProgressIsRunFraction ==
  runs # <<>> =>
    /\ progress.n * LastRun(runs).totalArticles
         = LastRun(runs).articlesProcessed * progress.d
    /\ progress.n <= progress.d

\* C29: the original row attached to a record classified by a run is the
\* first row of the pool with the record's title and the record's abstract,
\* and none when the pool has no such row.
C29_FirstExactMatchAttached ==
  \A k \in 1..Len(classifiedArticles) :
    LET entry == classifiedArticles[k]
        exact == { i \in 1..Len(originalArticleData) :
                     /\ originalArticleData[i].title = entry.article.title
                     /\ originalArticleData[i].abstract = entry.article.abstract }
    IN entry.by # 0 =>
         IF exact = {} THEN entry.originalData = Null
         ELSE \E i \in exact :
                /\ \A j \in exact : i <= j
                /\ entry.originalData = <<originalArticleData[i]>>

\* completed holds the second of two records with the same title and
\* abstract, with the first row attached, and a record whose row shares only
\* the abstract with the rows before it
C29_Witness ==
  /\ \E k \in 1..Len(classifiedArticles) :
       /\ classifiedArticles[k].by # 0
       /\ "doi" \in DOMAIN classifiedArticles[k].article
       /\ classifiedArticles[k].article.doi = "d2"
       /\ classifiedArticles[k].originalData # Null
       /\ classifiedArticles[k].originalData[1].doi = "d1"
  /\ \E k \in 1..Len(classifiedArticles) :
       /\ classifiedArticles[k].by # 0
       /\ classifiedArticles[k].article.title = "t2"
       /\ classifiedArticles[k].originalData # Null
       /\ classifiedArticles[k].originalData[1].doi = "d3"

\* the columns export takes from the session for a classified record: the
\* attached row, else the first row of the pool with its title and abstract,
\* else none
ExportSource(entry, pool) ==
  LET exact == { i \in 1..Len(pool) :
                   /\ "title" \in DOMAIN pool[i] /\ "abstract" \in DOMAIN pool[i]
                   /\ pool[i].title = entry.article.title
                   /\ pool[i].abstract = entry.article.abstract }
  IN IF entry.originalData # Null THEN entry.originalData[1]
     ELSE IF exact = {} THEN <<>>
     ELSE pool[CHOOSE i \in exact : \A j \in exact : i <= j]

----------------------------------------------------------------------------
(* Verdict recovery and record filtering of the import paths *)

\* the verdict schemas of a previous-results file, in priority order
VerdictSchemas ==
  << [include |-> "classification", reason |-> "reason", criterion |-> "criterion"],
     [include |-> "final_include", reason |-> "final_reason",
      criterion |-> "final_criterion"],
     [include |-> "manual_include", reason |-> "manual_reason",
      criterion |-> "manual_criterion"],
     [include |-> "ai_include", reason |-> "ai_reason",
      criterion |-> "ai_criterion"] >>

\* the schemas of a row whose classification value is present and non-empty
ResolvingSchemas(row) ==
  { i \in 1..Len(VerdictSchemas) :
      /\ VerdictSchemas[i].include \in DOMAIN row
      /\ row[VerdictSchemas[i].include] # "" }

\* the text of a column of a row, the placeholder when absent or empty
SchemaText(row, col) ==
  IF col \in DOMAIN row /\ row[col] # <<>> THEN row[col] ELSE LoadedPlaceholder

\* C31: every record recovered from a previous-results file carries the
\* verdict of the first schema, in the order classification, final_*,
\* manual_*, ai_*, whose classification value is present and non-empty, with
\* the reason and the criterion of that same schema; a row that no schema
\* resolves carries include = false and the placeholder reason.
C31_SchemaPriority ==
  \A k \in 1..Len(classifiedArticles) :
    LET e == classifiedArticles[k]
    IN (e.by = 0 /\ e.originalData # Null) =>
         LET row == e.originalData[1]
             hits == ResolvingSchemas(row)
         IN IF hits = {}
            THEN /\ e.classification.include = FALSE
                 /\ e.classification.reason = LoadedPlaceholder
            ELSE LET first == CHOOSE i \in hits : \A j \in hits : i <= j
                     schema == VerdictSchemas[first]
                 IN /\ e.classification.include =
                         (row[schema.include] \in {"Include", "true"})
                    /\ e.classification.reason = SchemaText(row, schema.reason)
                    /\ e.classification.criterion =
                         SchemaText(row, schema.criterion)

\* a file is loaded in which one row is resolved by final_* although its
\* classification column exists (empty), one by manual_* although ai_* is
\* filled, one by ai_*, and one by no schema
C31_Witness ==
  /\ imported # Null
  /\ imported[1].file.name = "schemas.xlsx"
  /\ Len(classifiedArticles) = 4
  /\ classifiedArticles[1].classification =
       [include |-> TRUE, reason |-> <<"f">>, criterion |-> <<"c">>]
  /\ classifiedArticles[2].classification =
       [include |-> TRUE, reason |-> LoadedPlaceholder,
        criterion |-> LoadedPlaceholder]
  /\ classifiedArticles[3].classification =
       [include |-> TRUE, reason |-> <<"r">>, criterion |-> <<"c">>]
  /\ classifiedArticles[4].classification =
       [include |-> FALSE, reason |-> LoadedPlaceholder,
        criterion |-> LoadedPlaceholder]

\* C32: every record of the loaded list and of the completed list has a
\* non-empty title and a non-empty abstract, whichever import path (fresh
\* records, previous results, sample data) produced them.
C32_TitleAndAbstractPresent ==
  /\ \A i \in 1..Len(articles) :
       articles[i].title # "" /\ articles[i].abstract # ""
  /\ \A k \in 1..Len(classifiedArticles) :
       /\ classifiedArticles[k].article.title # ""
       /\ classifiedArticles[k].article.abstract # ""

\* a file with rows that lack a title or an abstract was imported and fewer
\* records than rows were loaded
C32_Witness ==
  /\ imported # Null
  /\ \E i \in 1..Len(imported[1].file.rows) :
       ~("abstract" \in DOMAIN imported[1].file.rows[i])
  /\ \E i \in 1..Len(imported[1].file.rows) :
       "title" \in DOMAIN imported[1].file.rows[i]
         /\ imported[1].file.rows[i].title = ""
  /\ Len(articles) > 0
  /\ Len(articles) < Len(imported[1].file.rows)

----------------------------------------------------------------------------
(* Per-criterion statistics of a result set whose criteria differ in       *)
(* whitespace and in case                                                  *)

CriteriaFile ==
  [ name |-> "criteria.xlsx",
    rows |-> << [title |-> "t1", abstract |-> "a1", classification |-> "Include",
                 reason |-> <<"r">>, criterion |-> <<"c", " ">>],
                [title |-> "t2", abstract |-> "a2", classification |-> "Exclude",
                 reason |-> <<"r">>, criterion |-> <<" ", "c">>],
                [title |-> "t3", abstract |-> "a3", classification |-> "Include",
                 reason |-> <<"r">>, criterion |-> <<"C">>],
                [title |-> "t4", abstract |-> "a4", classification |-> "Exclude",
                 reason |-> <<"r">>, criterion |-> <<" ", " ">>] >> ]

InitStats ==
  /\ \E s \in Prepared0 :
       LET loaded == handleFileChange(s, CriteriaFile)
       IN /\ criteria = loaded.criteria
          /\ articles = loaded.articles
          /\ classifiedArticles = loaded.classifiedArticles
          /\ originalArticleData = loaded.originalArticleData
          /\ fileName = loaded.fileName
  /\ isLoading = FALSE
  /\ progress = Zero
  /\ isCancelledRef = FALSE
  /\ aiProvider = "gemini"
  /\ runs = <<>>
  /\ started = 0
  /\ lineage = NoLineage
  /\ imported = Null
  /\ notice = Null
  /\ filterClassification = "all"
  /\ filterCriterion = AllCriteria
  /\ clicked = Null
  /\ response = Null
  /\ listing = <<>>

SpecStats == InitStats /\ [][NextResults]_vars

\* the text between the first and the last non-space character
Stripped(text) ==
  LET solid == { i \in 1..Len(text) : text[i] # " " }
  IN IF solid = {} THEN <<>>
     ELSE SubSeq(text, CHOOSE i \in solid : \A j \in solid : i <= j,
                       CHOOSE i \in solid : \A j \in solid : i >= j)

\* the completed records whose stripped criterion is key
GroupMembers(key) ==
  { k \in 1..Len(classifiedArticles) :
      Stripped(classifiedArticles[k].classification.criterion) = key }

\* C33: the per-criterion statistics have exactly one group for every
\* distinct non-empty trimmed criterion string of the completed records
\* (criteria that differ only in surrounding whitespace share a group,
\* criteria that differ in case do not), each group counts its included and
\* excluded records with included + excluded = total >= 1, a record with an
\* empty or whitespace-only criterion is in no group, and the groups are in
\* descending order of total.
C33_GroupedByTrimmedCriterion ==
  LET stats == criteriaStatistics
  IN /\ { stats[g].criterion : g \in 1..Len(stats) }
          = { Stripped(classifiedArticles[k].classification.criterion) :
                k \in 1..Len(classifiedArticles) } \ { <<>> }
     /\ \A g, h \in 1..Len(stats) :
          stats[g].criterion = stats[h].criterion => g = h
     /\ \A g \in 1..Len(stats) :
          LET members == GroupMembers(stats[g].criterion)
          IN /\ stats[g].included =
                  Cardinality({ k \in members :
                                  classifiedArticles[k].classification.include })
             /\ stats[g].excluded =
                  Cardinality({ k \in members :
                                  ~classifiedArticles[k].classification.include })
             /\ stats[g].included + stats[g].excluded = stats[g].total
             /\ stats[g].total >= 1
     /\ \A g, h \in 1..Len(stats) :
          g < h => stats[g].total >= stats[h].total

\* the records with criteria "c " and " c" form one group of two, the record
\* with criterion "C" a group of its own listed after it, and the record with
\* a whitespace-only criterion is in no group
C33_Witness ==
  /\ Len(classifiedArticles) = 4
  /\ classifiedArticles[1].classification.criterion = <<"c", " ">>
  /\ classifiedArticles[2].classification.criterion = <<" ", "c">>
  /\ classifiedArticles[3].classification.criterion = <<"C">>
  /\ classifiedArticles[4].classification.criterion = <<" ", " ">>
  /\ Len(criteriaStatistics) = 2
  /\ criteriaStatistics[1].criterion = <<"c">>
  /\ criteriaStatistics[1].total = 2
  /\ criteriaStatistics[2].criterion = <<"C">>
  /\ criteriaStatistics[2].total = 1

----------------------------------------------------------------------------
(* The filters of the results table *)

FilterFile ==
  [ name |-> "filter.xlsx",
    rows |-> << [title |-> "t1", abstract |-> "a1", classification |-> "Include",
                 reason |-> <<"r">>, criterion |-> <<"C", " ", "x">>],
                [title |-> "t2", abstract |-> "a2", classification |-> "Exclude",
                 reason |-> <<"r">>, criterion |-> <<"c">>],
                [title |-> "t3", abstract |-> "a3", classification |-> "Include",
                 reason |-> <<"r">>, criterion |-> <<"x", " ">>],
                [title |-> "t4", abstract |-> "a4", classification |-> "Exclude",
                 reason |-> <<"r">>, criterion |-> <<" ">>] >> ]

InitFilter ==
  /\ \E s \in Prepared0 :
       LET loaded == handleFileChange(s, FilterFile)
       IN /\ criteria = loaded.criteria
          /\ articles = loaded.articles
          /\ classifiedArticles = loaded.classifiedArticles
          /\ originalArticleData = loaded.originalArticleData
          /\ fileName = loaded.fileName
  /\ isLoading = FALSE
  /\ progress = Zero
  /\ isCancelledRef = FALSE
  /\ aiProvider = "gemini"
  /\ runs = <<>>
  /\ started = 0
  /\ lineage = NoLineage
  /\ imported = Null
  /\ notice = Null
  /\ filterClassification = "all"
  /\ filterCriterion = AllCriteria
  /\ clicked = Null
  /\ response = Null
  /\ listing = <<>>

NextFilter ==
  \/ \E row \in 1..Len(classifiedArticles) : \E newInclude \in BOOLEAN :
       ClassificationClicked(row, newInclude)
  \/ \E value \in {"all", "include", "exclude"} : setFilterClassification(value)
  \/ \E value \in {AllCriteria} \cup uniqueCriteria : setFilterCriterion(value)
  \/ clearFilters

SpecFilter == InitFilter /\ [][NextFilter]_vars

\* two characters that are the same letter in either case
SameLetter(a, b) ==
  a = b \/ {a, b} \in { {"a", "A"}, {"c", "C"}, {"l", "L"}, {"x", "X"} }

\* part occurs in text at some position, letter case ignored
OccursIgnoringCase(text, part) ==
  \E at \in 0..(Len(text) - Len(part)) :
    \A j \in 1..Len(part) : SameLetter(text[at + j], part[j])

\* the positions of the completed records that the two filters admit
Admitted(classification, criterion) ==
  { k \in 1..Len(classifiedArticles) :
      /\ \/ classification = "all"
         \/ classification = "include" /\ classifiedArticles[k].classification.include
         \/ classification = "exclude" /\ ~classifiedArticles[k].classification.include
      /\ \/ criterion = AllCriteria
         \/ OccursIgnoringCase(classifiedArticles[k].classification.criterion,
                               criterion) }

\* list is the records of completed at the positions of keep, in order
IsSelection(list, keep) ==
  /\ Len(list) = Cardinality(keep)
  /\ \A k \in keep :
       list[Cardinality({ j \in keep : j <= k })] = classifiedArticles[k]

\* C34: the records shown are exactly the completed records whose include
\* value matches the classification filter and whose criterion contains the
\* criterion filter ignoring case (or the criterion filter is 'all'); the
\* filters (all, all) show every record, and the include and the exclude
\* filter split the completed records into two disjoint lists that together
\* hold every record.
C34_FilterPredicate ==
  /\ IsSelection(filteredArticles, Admitted(filterClassification, filterCriterion))
  /\ FilteredBy("all", AllCriteria) = classifiedArticles
  /\ LET shownIncluded == Admitted("include", AllCriteria)
         shownExcluded == Admitted("exclude", AllCriteria)
     IN /\ IsSelection(FilteredBy("include", AllCriteria), shownIncluded)
        /\ IsSelection(FilteredBy("exclude", AllCriteria), shownExcluded)
        /\ shownIncluded \cap shownExcluded = {}
        /\ shownIncluded \cup shownExcluded = 1..Len(classifiedArticles)

\* the include filter and the criterion filter "c" are set after a manual
\* reclassification, and the records shown are the first (criterion "C x")
\* and the second (criterion "c") but neither the third nor the fourth
C34_Witness ==
  /\ filterClassification = "include"
  /\ filterCriterion = <<"c">>
  /\ Len(classifiedArticles) = 4
  /\ classifiedArticles[2].classification.reason = ManualReason(TRUE)
  /\ classifiedArticles[3].classification.include
  /\ filteredArticles = <<classifiedArticles[1], classifiedArticles[2]>>

----------------------------------------------------------------------------
(* Manual changes in a results table that lists one title and abstract     *)
(* twice                                                                   *)

DuplicateResultsFile ==
  [ name |-> "duplicate-results.xlsx",
    rows |-> << [title |-> "t1", abstract |-> "a1", classification |-> "Exclude",
                 reason |-> <<"r">>, criterion |-> <<"x">>],
                [title |-> "t1", abstract |-> "a1", classification |-> "Include",
                 reason |-> <<"r">>, criterion |-> <<"c">>],
                [title |-> "t2", abstract |-> "a1", classification |-> "Include",
                 reason |-> <<"r">>, criterion |-> <<"c">>] >> ]

InitTable ==
  /\ \E s \in Prepared0 :
       LET loaded == handleFileChange(s, DuplicateResultsFile)
       IN /\ criteria = loaded.criteria
          /\ articles = loaded.articles
          /\ classifiedArticles = loaded.classifiedArticles
          /\ originalArticleData = loaded.originalArticleData
          /\ fileName = loaded.fileName
  /\ isLoading = FALSE
  /\ progress = Zero
  /\ isCancelledRef = FALSE
  /\ aiProvider = "gemini"
  /\ runs = <<>>
  /\ started = 0
  /\ lineage = NoLineage
  /\ imported = Null
  /\ notice = Null
  /\ filterClassification = "all"
  /\ filterCriterion = AllCriteria
  /\ clicked = Null
  /\ response = Null
  /\ listing = <<>>

SpecTable == InitTable /\ [][NextResults]_vars

\* every record of completed other than the one at position row is as it was
OthersUntouched(row) ==
  /\ Len(classifiedArticles') = Len(classifiedArticles)
  /\ \A j \in 1..Len(classifiedArticles) :
       j # row => classifiedArticles'[j] = classifiedArticles[j]

\* C35: when the include value of a record of the results table is changed
\* by hand, that record gets the chosen include value and the fixed audit
\* reason for that value; its criterion, title, abstract and original row,
\* every other record, the length and the order of completed, and the
\* backend calls in flight stay as they were.
C35_IncludeOverwritten ==
  [][ (clicked' # Null /\ clicked'[1].include # Null) =>
        LET row == clicked'[1].row
            chosen == clicked'[1].include[1]
        IN /\ classifiedArticles'[row].classification.include = chosen
           /\ classifiedArticles'[row].classification.reason =
                (IF chosen THEN <<"Manually changed to Include by user">>
                 ELSE <<"Manually changed to Exclude by user">>)
           /\ classifiedArticles'[row].classification.criterion =
                classifiedArticles[row].classification.criterion
           /\ classifiedArticles'[row].article = classifiedArticles[row].article
           /\ classifiedArticles'[row].originalData =
                classifiedArticles[row].originalData
           /\ OthersUntouched(row)
           /\ runs' = runs ]_vars

\* C36: when the criterion of a record of the results table is changed by
\* hand, that record gets the chosen criterion and a reason that quotes it;
\* its include value, every other record, and the length and the order of
\* completed stay as they were.
C36_CriterionOverwritten ==
  [][ (clicked' # Null /\ clicked'[1].criterion # Null) =>
        LET row == clicked'[1].row
            chosen == clicked'[1].criterion[1]
        IN /\ classifiedArticles'[row].classification.criterion = chosen
           /\ classifiedArticles'[row].classification.reason =
                <<"Criterion manually changed by user to: ">> \o chosen
           /\ classifiedArticles'[row].classification.include =
                classifiedArticles[row].classification.include
           /\ OthersUntouched(row) ]_vars

----------------------------------------------------------------------------
(* The response text of the Ollama and DeepSeek adapters *)

\* a raw response is a text of braces and of other characters ("w")
ContentTokens == {"{", "}", "w"}

Contents == UNION { [1..n -> ContentTokens] : n \in 0..MaxContent }

\* content.match(/\{[\s\S]*\}/): from the first "{" to the last "}" after it
jsonMatch(content) ==
  LET opens == { i \in 1..Len(content) : content[i] = "{" }
  IN IF opens = {} THEN Null
     ELSE LET first == CHOOSE i \in opens : \A k \in opens : i <= k
              closes == { j \in (first + 1)..Len(content) : content[j] = "}" }
          IN IF closes = {} THEN Null
             ELSE Some(SubSeq(content, first,
                              CHOOSE j \in closes : \A k \in closes : j >= k))

\* number of objects open after the first n tokens of text
Depth(text, n) ==
  Cardinality({ i \in 1..n : text[i] = "{" })
    - Cardinality({ i \in 1..n : text[i] = "}" })

\* JSON.parse(text) returns: text is one object, any text between its braces
\* taken as well-formed members
JSONParses(text) ==
  /\ Len(text) >= 2
  /\ text[1] = "{"
  /\ text[Len(text)] = "}"
  /\ Depth(text, Len(text)) = 0
  /\ \A n \in 1..(Len(text) - 1) : Depth(text, n) >= 1

\* response.json() resolves with the content; the adapter matches, parses
\* and returns the verdict, or throws
ContentArrives ==
  \E <<r, i>> \in Flying : \E content \in Contents : \E v \in Verdicts :
    /\ runs[r].batch[i].call.phase = "body"
    /\ LET matched == jsonMatch(content)
           parsed == matched # Null /\ JSONParses(matched[1])
       IN /\ IF parsed THEN TaskReturns(r, i, TRUE, v)
             ELSE TaskReturns(r, i, FALSE, NoVerdict)
          /\ response' = Some([ content |-> content, jsonMatch |-> matched,
                                parsed |-> parsed ])

\* the page with criteria set, the sample data loaded and a proxied provider
InitAdapter ==
  /\ \E s \in Prepared0 :
       LET loaded == handleLoadSampleData(s)
       IN /\ criteria = loaded.criteria
          /\ articles = loaded.articles
          /\ classifiedArticles = loaded.classifiedArticles
          /\ originalArticleData = loaded.originalArticleData
          /\ fileName = loaded.fileName
  /\ isLoading = FALSE
  /\ progress = Zero
  /\ isCancelledRef = FALSE
  /\ aiProvider \in {"ollama", "deepseek"}
  /\ runs = <<>>
  /\ started = 0
  /\ lineage = NoLineage
  /\ imported = Null
  /\ notice = Null
  /\ filterClassification = "all"
  /\ filterCriterion = AllCriteria
  /\ clicked = Null
  /\ response = Null
  /\ listing = <<>>

NextAdapter ==
  \/ handleRunAnalysis(TRUE)
  \/ ResponseArrives
  \/ ContentArrives

SpecAdapter == InitAdapter /\ [][NextAdapter]_vars

\* the part of text from position from to position to is one object with
\* balanced braces
IsObjectAt(text, from, to) ==
  /\ from < to
  /\ text[from] = "{"
  /\ text[to] = "}"
  /\ \A n \in from..to :
       LET open == Cardinality({ i \in from..n : text[i] = "{" })
           shut == Cardinality({ i \in from..n : text[i] = "}" })
       IN IF n = to THEN open = shut ELSE open > shut

\* the balanced objects of text, as pairs of positions
ObjectsOf(text) ==
  { pair \in (1..Len(text)) \X (1..Len(text)) :
      IsObjectAt(text, pair[1], pair[2]) }

\* C37: the adapter extracts the first balanced-brace object of the raw
\* response text and parses it: whenever the text holds one or more
\* brace-delimited objects the extracted text is the first balanced
\* "{...}" object and a verdict is returned, and the adapter fails only
\* when the text holds no such object.
C37_FirstBalancedObjectExtracted ==
  response # Null =>
    LET content == response[1].content
        objects == ObjectsOf(content)
    IN IF objects = {} THEN ~response[1].parsed
       ELSE LET first == CHOOSE pair \in objects :
                           \A other \in objects : pair[1] <= other[1]
            IN /\ response[1].jsonMatch =
                    Some(SubSeq(content, first[1], first[2]))
               /\ response[1].parsed

----------------------------------------------------------------------------
(* Model listing: the two GET routes and the loaders of the page *)

\* what the Ollama server answers to GET /models: no connection, an HTTP
\* error, or a list of models
OllamaServices ==
  { [state |-> "down", models |-> <<>>], [state |-> "error", models |-> <<>>] }
  \cup { [state |-> "up", models |-> list] :
           list \in { <<>>, <<"llama3">>, <<"llama3", "nomic-embed-text">> } }

\* DEEPSEEK_API_KEY set or not, and what the DeepSeek API answers to
\* GET /models; data |-> Null is an answer without a data field
DeepSeekServices ==
  { [key |-> k, state |-> st, data |-> Null] :
      k \in BOOLEAN, st \in {"down", "error"} }
  \cup { [key |-> k, state |-> "up", data |-> d] :
           k \in BOOLEAN, d \in { Null, Some(<<"deepseek-chat">>) } }

DEEPSEEK_MODELS == <<"deepseek-chat", "deepseek-coder", "deepseek-reasoner">>

\* model.model.toLowerCase().includes('embed')
isEmbedding(model) == model \in {"nomic-embed-text"}

\* GET of api/ollama/models
OllamaModelsRoute(service) ==
  IF service.state = "down"
  THEN [ ok |-> FALSE, models |-> Null,
         error |-> <<"Failed to connect to Ollama API">> ]
  ELSE IF service.state = "error"
  THEN [ ok |-> FALSE, models |-> Null, error |-> <<"Ollama API error">> ]
  ELSE [ ok |-> TRUE,
         models |-> Some(SelectSeq(service.models, LAMBDA m : ~isEmbedding(m))),
         error |-> <<>> ]

\* GET of the DeepSeek models route
DeepSeekModelsRoute(service) ==
  IF ~service.key
  THEN [ ok |-> TRUE, models |-> Some(<<>>),
         error |-> <<"DeepSeek API key not configured">> ]
  ELSE IF service.state = "up"
  THEN [ ok |-> TRUE,
         models |-> IF service.data # Null THEN service.data
                    ELSE Some(DEEPSEEK_MODELS),
         error |-> <<>> ]
  ELSE [ ok |-> TRUE, models |-> Some(DEEPSEEK_MODELS), error |-> <<>> ]

ModelsRoute(provider, service) ==
  IF provider = "ollama" THEN OllamaModelsRoute(service)
  ELSE DeepSeekModelsRoute(service)

\* the provider can list its models: its server answers and, for DeepSeek,
\* the key is set
ServiceAvailable(provider, service) ==
  IF provider = "ollama" THEN service.state = "up"
  ELSE service.key /\ service.state = "up"

\* the toast of loadOllamaModels / loadDeepSeekModels for a route answer
LoadModelsToast(provider, answer) ==
  IF ~answer.ok
  THEN Some(Toast("destructive", <<"Erro ao carregar modelos">>, answer.error))
  ELSE IF answer.models[1] = <<>>
  THEN Some(Toast("destructive", <<"Nenhum modelo encontrado">>, <<>>))
  ELSE Null

\* handleProviderChange: the provider is set and, for ollama and deepseek,
\* the load of its model list is started
handleProviderChange(provider) ==
  /\ aiProvider' = provider
  /\ IF provider = "gemini" THEN UNCHANGED listing
     ELSE /\ Len(listing) < MaxLoads
          /\ listing' = Append(listing, [ provider |-> provider,
                                          phase |-> "pending",
                                          available |-> TRUE,
                                          answer |-> Null ])
  /\ imported' = Null
  /\ notice' = Null
  /\ clicked' = Null
  /\ response' = Null
  /\ UNCHANGED <<criteria, articles, classifiedArticles, isLoading, progress,
                 fileName, isCancelledRef, originalArticleData, runs, started,
                 lineage, filterClassification, filterCriterion>>

\* fetchOllamaModels / fetchDeepSeekModels returns or throws, and the rest
\* of loadOllamaModels / loadDeepSeekModels: a thrown error resets the
\* provider to gemini
ModelsLoaded(load, service) ==
  /\ load \in 1..Len(listing)
  /\ listing[load].phase = "pending"
  /\ service \in (IF listing[load].provider = "ollama" THEN OllamaServices
                   ELSE DeepSeekServices)
  /\ LET provider == listing[load].provider
         answer == ModelsRoute(provider, service)
     IN /\ listing' = [listing EXCEPT ![load] =
                          [ provider |-> provider, phase |-> "done",
                            available |-> ServiceAvailable(provider, service),
                            answer |-> Some(answer) ]]
        /\ aiProvider' = IF answer.ok THEN aiProvider ELSE "gemini"
        /\ notice' = LoadModelsToast(provider, answer)
  /\ imported' = Null
  /\ clicked' = Null
  /\ response' = Null
  /\ UNCHANGED <<criteria, articles, classifiedArticles, isLoading, progress,
                 fileName, isCancelledRef, originalArticleData, runs, started,
                 lineage, filterClassification, filterCriterion>>

NextListing ==
  \/ \E provider \in Providers : handleProviderChange(provider)
  \/ \E load \in 1..Len(listing) :
       \E service \in OllamaServices \cup DeepSeekServices :
         ModelsLoaded(load, service)

SpecListing == Init /\ [][NextListing]_vars

\* C38: when a load of the model list ends and the provider's credentials
\* are absent or its service is unreachable, the listing route has returned
\* a success answer with an empty list or the static list of models, and
\* the provider selected on the page stays selected.
C38_ListingNeverFails ==
  [][ \A load \in 1..Len(listing) :
        ( /\ listing[load].phase = "pending"
          /\ listing'[load].phase = "done"
          /\ ~listing'[load].available )
        => /\ listing'[load].answer[1].ok
           /\ listing'[load].answer[1].models
                \in { Some(<<>>),
                      Some(<<"deepseek-chat", "deepseek-coder",
                             "deepseek-reasoner">>) }
           /\ aiProvider' = aiProvider ]_vars

====
